---- MODULE Spec2Model ----
(***************************************************************************)
(* A model of the gene-graph-conv model code: model selection and          *)
(* construction (get_model), parameter snapshots (load_state_dict), the    *)
(* forward / backward / optimizer cycle with its gradient hooks, the       *)
(* regularization terms, the sparse-logistic Laplacian, the attention      *)
(* layer and the supervised forward pass with dropout.                     *)
(*                                                                         *)
(* Tensors of the lifecycle part are abstracted to [shape, val]: a tensor  *)
(* of that shape filled with the integer val.  The numeric parts keep      *)
(* whole tensors over small index sets.                                    *)
(***************************************************************************)
EXTENDS Integers, Sequences, FiniteSets, TLC

VARIABLES
    api,          \* which module is in use: "model_layers" or "models"
    pc,           \* "start" | "built" | "failed" : outcome of get_model
    requested,    \* the model name get_model was called with
    my_model,     \* the model get_model returned (kind "none" if none)
    own_state,    \* my_model.state_dict(): name -> [shape, val]
    raised,       \* the exception the last call raised, or "none"
    last_call,    \* the last call and what it did with a supplied state
    phase,        \* "idle" | "forwarded" | "backwarded"
    hooks,        \* names hooked on the graph of the output last returned
    grads,        \* keys of GraphNetwork.grads
    gene_invoked, \* gene_inference was called at least once
    steps,        \* optimizer steps taken
    reg_out,      \* the regularization term last computed
    graph_adj,    \* the adjacency array of the graph provider
    laplacian,    \* SparseLogisticRegression.laplacian
    lap0,         \* the Laplacian as derived at construction
    slr_weight,   \* my_logistic_layers[-1].weight of the sparse-logistic model
    slr_pc,       \* "start" | "built" : the sparse-logistic model exists
    attn_pc,      \* "start" | "built" | "done" : the attention layer
    attn_layer,   \* AttentionLayer.attn: [w, b] of the linear projection
    attn_x,       \* the input of the last AttentionLayer.forward
    attn_out,     \* what it returned: [applied, weights]
    rng,          \* state of torch's random generator
    fwd_model,    \* a GraphNetwork with its dropout flag and train/eval mode
    passes,       \* the forward passes made on fwd_model, oldest first
    net,          \* a GraphNetwork as constructed: its options and module lists
    net_trace,    \* the modules and operations its last call applied, in order
    net_result,   \* what that call returned or raised
    run,          \* main(): position in the training loop and its counters
    prune,        \* the adjacency transform: its input, options and output
    drop,         \* a GraphNetwork's dropouts and the block they last acted in
    l1            \* the model and lambda setup_l1_loss was last called with

lifecycle_vars == <<api, pc, requested, my_model, own_state, raised, last_call,
                    phase, hooks, grads, gene_invoked, steps>>
slr_vars == <<laplacian, lap0, slr_weight, slr_pc>>

attn_vars == <<attn_pc, attn_layer, attn_x, attn_out>>
fwd_vars == <<rng, fwd_model, passes>>
net_vars == <<net, net_trace, net_result>>
late_vars == <<drop, l1>>
more_vars == <<net_vars, run, prune, late_vars>>
aux_vars == <<attn_vars, fwd_vars, more_vars>>

vars == <<lifecycle_vars, reg_out, graph_adj, slr_vars, aux_vars>>

\* ------------------------------------------------------------------ bounds
MaxEntries == 2     \* entries of a supplied state mapping
MaxSteps == 2       \* optimizer steps explored
MaxLayers == 2      \* num_layer 1..MaxLayers
MaxLambda == 2      \* reg_lambda and lambdas entries 0..MaxLambda
MaxLambdas == 1     \* length of the driver's lambdas list
MaxWeight == 2      \* edge weights 0..MaxWeight of a provider adjacency
AttnNodes == 2      \* nodes of an input of the attention layer

\* the values a tensor is filled with: two are enough to tell a parameter
\* that was overwritten from one that was not
Vals == {0, 1}

\* ------------------------------------------------------------ small helpers
RECURSIVE SeqSum(_)
SeqSum(s) == IF s = <<>> THEN 0 ELSE Head(s) + SeqSum(Tail(s))

Min(a, b) == IF a < b THEN a ELSE b

\* zip(a, b): pairs up to the shorter length
Zip(a, b) == [i \in 1..Min(Len(a), Len(b)) |-> <<a[i], b[i]>>]

SeqsUpTo(S, n) == UNION {[1..k -> S] : k \in 0..n}

\* --------------------------------------------------------- model selection
NewModels == {"gcn", "lcg", "sgc", "slr", "lr", "mlp"}
OldModels == {"cgn", "lcg", "sgc", "slr", "mlp", "random", "cnn"}
ModelNames == NewModels \cup OldModels \cup {"resnet"}

GraphNetworkKinds == {"gcn", "cgn", "lcg", "sgc"}
NeedsGraph_convolutions_only == {"gcn", "lcg", "sgc"}
NeedsGraph == {"gcn", "lcg", "sgc", "slr"}

NoModel == [kind |-> "none", add_emb |-> FALSE, num_layer |-> 0]
NoState == [n \in {} |-> 0]
NoCall == [op |-> "none", with_state |-> FALSE, env_ok |-> FALSE,
           ignored |-> FALSE, skipped |-> FALSE, copied |-> FALSE,
           late_copy |-> FALSE, kept |-> FALSE, all_copied |-> TRUE,
           others_kept |-> TRUE, arg |-> 0, graph_given |-> FALSE]
Call(op) == [NoCall EXCEPT !.op = op]

\* the names each get_model has a branch for
SupportedNames(a) == IF a = "model_layers" THEN NewModels ELSE OldModels

\* the final else of the if/elif chain of model_layers.get_model
select_fallback(model) == model
select_new(model) == IF model \in NewModels THEN model ELSE "ValueError"

\* the final else of the if/elif chain of models.get_model
select_old(model) == IF model \in OldModels THEN model ELSE "ValueError"

\* --------------------------------------------------------------- tensors
NbNodes == 2
OutDim == 2
WeightShape == <<OutDim, NbNodes>>
BiasShape == <<OutDim>>

WName == "my_logistic_layers.0.weight"
BName == "my_logistic_layers.0.bias"
MLPWName == "last_layer.weight"
MLPBName == "last_layer.bias"

\* the parameters a model of this kind registers (read-out layer)
ParamNames(kind) ==
    IF kind = "none" THEN <<>>
    ELSE IF kind \in {"mlp", "random"} THEN <<MLPWName, MLPBName>>
    ELSE IF kind = "cnn" THEN <<"fc.weight", "fc.bias">>
    ELSE <<WName, BName>>

ShapeOf(name) == IF name \in {WName, MLPWName, "fc.weight"} THEN WeightShape ELSE BiasShape

Range(s) == {s[i] : i \in DOMAIN s}

\* state_dict() of a freshly constructed model
FreshState(kind) ==
    [n \in Range(ParamNames(kind)) |-> [shape |-> ShapeOf(n), val |-> 0]]

\* an entry of a supplied state mapping
EntryNames == {WName, BName, MLPWName}
Entries == {e \in [name : EntryNames, shape : {WeightShape, BiasShape},
                    sparse : BOOLEAN, val : Vals] :
                e.sparse => e.shape = ShapeOf(e.name)}

DistinctNames(sd) == \A i, j \in DOMAIN sd : i # j => sd[i].name # sd[j].name
StateDicts == {sd \in SeqsUpTo(Entries, MaxEntries) : DistinctNames(sd)}
\* a reload during training: a snapshot of at most one entry
Reloads == {<<>>} \cup {<<e>> : e \in Entries}

\* own_state[name].copy_(param): what it raises, or "ok"
copy_(dst, e) ==
    IF e.sparse THEN "AttributeError"
    ELSE IF e.shape # dst.shape THEN "RuntimeError"
    ELSE "ok"

\* ------------------------------------------------- GraphNetwork.load_state_dict
RECURSIVE load_abort_on_failure(_, _)
load_abort_on_failure(own, sd) ==
    IF sd = <<>> THEN [st |-> own, exc |-> "none"]
    ELSE LET e == Head(sd) IN
         IF e.name \notin DOMAIN own THEN [st |-> own, exc |-> "none"]
         ELSE IF copy_(own[e.name], e) # "ok" THEN [st |-> own, exc |-> "none"]
         ELSE load_abort_on_failure([own EXCEPT ![e.name].val = e.val], Tail(sd))

RECURSIVE load_copy_anyway(_, _)
load_copy_anyway(own, sd) ==
    IF sd = <<>> THEN [st |-> own, exc |-> "none"]
    ELSE LET e == Head(sd) IN
         IF e.name \notin DOMAIN own THEN load_copy_anyway(own, Tail(sd))
         ELSE load_copy_anyway([own EXCEPT ![e.name].val = e.val], Tail(sd))

RECURSIVE GraphNetwork_load_state_dict(_, _)
GraphNetwork_load_state_dict(own, sd) ==
    IF sd = <<>> THEN [st |-> own, exc |-> "none"]
    ELSE LET e == Head(sd) IN
         IF e.name \notin DOMAIN own
         THEN GraphNetwork_load_state_dict(own, Tail(sd))             \* continue
         ELSE LET r == copy_(own[e.name], e) IN
              IF r = "ok"
              THEN GraphNetwork_load_state_dict(
                       [own EXCEPT ![e.name].val = e.val], Tail(sd))
              ELSE IF r \in {"AttributeError", "RuntimeError"}
              THEN GraphNetwork_load_state_dict(own, Tail(sd))        \* pass
              ELSE [st |-> own, exc |-> r]

\* nn.Module.load_state_dict, inherited by the classes that do not override it
RECURSIVE Module_load_state_dict(_, _)
Module_load_state_dict(own, sd) ==
    IF sd = <<>> THEN [st |-> own, exc |-> "none"]
    ELSE LET e == Head(sd) IN
         IF e.name \notin DOMAIN own THEN [st |-> own, exc |-> "KeyError"]
         ELSE IF copy_(own[e.name], e) # "ok" THEN [st |-> own, exc |-> "RuntimeError"]
         ELSE Module_load_state_dict([own EXCEPT ![e.name].val = e.val], Tail(sd))

Module_load_strict(own, sd) ==
    LET r == Module_load_state_dict(own, sd) IN
    IF r.exc # "none" THEN r
    ELSE IF \E n \in DOMAIN own : \A i \in DOMAIN sd : sd[i].name # n
    THEN [st |-> r.st, exc |-> "KeyError"]
    ELSE r

\* my_model.load_state_dict: the override of GraphNetwork (model_layers only)
load_state_dict(a, kind, own, sd) ==
    IF a = "model_layers" /\ kind \in GraphNetworkKinds
    THEN GraphNetwork_load_state_dict(own, sd)
    ELSE Module_load_strict(own, sd)

\* init_state_dict = my_model.state_dict(); init_state_dict.update(model_state)
Find(sd, n) == CHOOSE i \in DOMAIN sd : sd[i].name = n
Has(sd, n) == \E i \in DOMAIN sd : sd[i].name = n
SelectSeq2(sd, own) == SelectSeq(sd, LAMBDA e : e.name \notin DOMAIN own)
UpdatedStateDict(kind, own, model_state) ==
    [i \in DOMAIN ParamNames(kind) |->
        LET n == ParamNames(kind)[i] IN
        IF Has(model_state, n) THEN model_state[Find(model_state, n)]
        ELSE [name |-> n, shape |-> own[n].shape, sparse |-> FALSE, val |-> own[n].val]]
    \o SelectSeq2(model_state, own)

\* ------------------------------------------------ wide natural arithmetic
\* Naturals as little-endian digit sequences in base Base, so that the
\* products of the degree normalisation do not overflow.
Base == 32768

RECURSIVE BigOf(_)
BigOf(n) == IF n = 0 THEN <<>> ELSE <<n % Base>> \o BigOf(n \div Base)

RECURSIVE BigAdd(_, _, _)
BigAdd(a, b, c) ==
    IF a = <<>> /\ b = <<>> THEN (IF c = 0 THEN <<>> ELSE <<c>>)
    ELSE LET x == IF a = <<>> THEN 0 ELSE Head(a)
             y == IF b = <<>> THEN 0 ELSE Head(b)
             t == x + y + c
         IN <<t % Base>> \o BigAdd(IF a = <<>> THEN <<>> ELSE Tail(a),
                                   IF b = <<>> THEN <<>> ELSE Tail(b), t \div Base)

RECURSIVE BigMulDigit(_, _, _)
BigMulDigit(a, k, c) ==
    IF a = <<>> THEN (IF c = 0 THEN <<>> ELSE <<c>>)
    ELSE LET t == Head(a) * k + c
         IN <<t % Base>> \o BigMulDigit(Tail(a), k, t \div Base)

BigShift(a) == IF a = <<>> THEN <<>> ELSE <<0>> \o a

RECURSIVE BigMul(_, _)
BigMul(a, b) ==
    IF a = <<>> \/ b = <<>> THEN <<>>
    ELSE IF Head(b) = 0 THEN BigShift(BigMul(a, Tail(b)))
    ELSE BigAdd(BigMulDigit(a, Head(b), 0), BigShift(BigMul(a, Tail(b))), 0)

RECURSIVE BigLeqSameLen(_, _)
BigLeqSameLen(a, b) ==
    IF a = <<>> THEN TRUE
    ELSE LET n == Len(a) IN
         IF a[n] # b[n] THEN a[n] < b[n]
         ELSE BigLeqSameLen(SubSeq(a, 1, n - 1), SubSeq(b, 1, n - 1))

BigLeq(a, b) ==
    IF Len(a) # Len(b) THEN Len(a) < Len(b) ELSE BigLeqSameLen(a, b)

\* ------------------------------------------ SparseLogisticRegression.__init__
\* Reals are held in fixed point, Scale units to 1 (the float tensor the
\* Laplacian is stored as), rounded to nearest.
Scale == 1000000
EpsInv == 100000      \* the 1e-5 added to the degree is 1 / EpsInv
RootMax == 1073741823 \* largest fixed-point magnitude searched (2^30 - 1)

\* np.fill_diagonal(adj, 0.)
fill_diagonal(adj, n) ==
    [i \in 1..n |-> [j \in 1..n |-> IF i = j THEN 0 ELSE adj[i][j]]]

RECURSIVE ColSum(_, _, _)
ColSum(adj, j, i) == IF i = 0 THEN 0 ELSE adj[i][j] + ColSum(adj, j, i - 1)

Degree_no_eps(adj, n) == [j \in 1..n |-> ColSum(adj, j, n) * EpsInv]

\* D = adj.sum(0) + 1e-5, as the numerator over EpsInv
Degree(adj, n) == [j \in 1..n |-> ColSum(adj, j, n) * EpsInv + 1]

\* r - 1/2 <= Scale * a / sqrt((qi/EpsInv) * (qj/EpsInv)), squared and cleared
RootTest(r, a, qi, qj) ==
    r = 0 \/
    BigLeq(BigMul(BigMul(BigOf(2 * r - 1), BigOf(2 * r - 1)),
                  BigMul(BigOf(qi), BigOf(qj))),
           BigMul(BigMul(BigOf(2 * Scale), BigOf(a * EpsInv)),
                  BigMul(BigOf(2 * Scale), BigOf(a * EpsInv))))

RECURSIVE RootSearch(_, _, _, _, _)
RootSearch(lo, hi, a, qi, qj) ==
    IF lo = hi THEN lo
    ELSE LET mid == lo + (hi - lo + 1) \div 2 IN
         IF RootTest(mid, a, qi, qj) THEN RootSearch(mid, hi, a, qi, qj)
         ELSE RootSearch(lo, mid - 1, a, qi, qj)

\* what stands for a nan entry (inf * 0 of a zero degree without epsilon)
NaN == -2000000000

\* (D**-0.5)[i] * adj[i][j] * (D**-0.5)[j] in fixed point; a zero degree
\* numerator (no epsilon) divides by zero: the entry is not a number
Normalized(a, qi, qj) ==
    IF qi = 0 \/ qj = 0 THEN NaN
    ELSE IF a = 0 THEN 0
    ELSE RootSearch(0, RootMax, a, qi, qj)

\* laplacian = np.eye(n) - np.diag(D**-0.5).dot(adj).dot(np.diag(D**-0.5))
LaplacianOf(adj, D, n) ==
    [i \in 1..n |-> [j \in 1..n |->
        LET v == Normalized(adj[i][j], D[i], D[j]) IN
        IF v = NaN THEN NaN
        ELSE (IF i = j THEN Scale ELSE 0) - v]]

Laplacian_unnormalized(adj, n) ==
    [i \in 1..n |-> [j \in 1..n |-> (IF i = j THEN Scale ELSE 0) - adj[i][j] * Scale]]

Laplacian(adj, n) == LaplacianOf(adj, Degree(adj, n), n)

Abs(x) == IF x < 0 THEN -x ELSE x

RECURSIVE SumTo(_, _)
\* sum of f[1..n]
SumTo(f, n) == IF n = 0 THEN 0 ELSE f[n] + SumTo(f, n - 1)

\* (torch.abs(weight).mm(laplacian) * torch.abs(weight)).sum()
LaplacianPenalty(weight, lap, n) ==
    SumTo([k \in 1..Len(weight) |->
        SumTo([j \in 1..n |->
            SumTo([i \in 1..n |-> Abs(weight[k][i]) * lap[i][j]], n)
                * Abs(weight[k][j])], n)], Len(weight))

\* ------------------------------------------------------- regularization
\* model_layers.py: regularization(reg_lambda) returns a number
GraphNetwork_regularization_weighted(reg_lambda) == reg_lambda
GraphNetwork_regularization(reg_lambda) == 0
MLP_regularization(reg_lambda) == 0
LogisticRegression_regularization(reg_lambda) == 0
SLR_regularization(weight, lap, reg_lambda) ==
    LaplacianPenalty(weight, lap, Len(lap)) * reg_lambda

\* models.py: regularization() returns a list of terms
GraphNetwork_regularization_old == <<>>
MLP_regularization_old == <<>>
SLR_regularization_old(weight, lap) == <<LaplacianPenalty(weight, lap, Len(lap))>>

\* the read-out weight of the lifecycle part as a matrix: filled with val
FilledMatrix(val) == [k \in 1..OutDim |-> [i \in 1..NbNodes |-> val]]

regularization(kind, own, lap, reg_lambda) ==
    IF kind \in GraphNetworkKinds THEN GraphNetwork_regularization(reg_lambda)
    ELSE IF kind = "mlp" THEN MLP_regularization(reg_lambda)
    ELSE IF kind = "lr" THEN LogisticRegression_regularization(reg_lambda)
    ELSE SLR_regularization(FilledMatrix(own[WName].val), lap, reg_lambda)

regularization_old(kind, own, lap) ==
    IF kind \in GraphNetworkKinds THEN GraphNetwork_regularization_old
    ELSE IF kind = "slr" THEN SLR_regularization_old(FilledMatrix(own[WName].val), lap)
    ELSE MLP_regularization_old

other_loss_padded(regs, lambdas) ==
    SeqSum([i \in DOMAIN regs |->
        regs[i] * (IF i <= Len(lambdas) THEN lambdas[i] ELSE 1)])

\* main: other_loss = sum([r * l for r, l in zip(my_model.regularization(), lambdas)])
other_loss(regs, lambdas) ==
    LET z == Zip(regs, lambdas) IN SeqSum([i \in DOMAIN z |-> z[i][1] * z[i][2]])

\* ------------------------------------------------------- gradient hooks
LayerNames == <<"layer_0", "layer_1", "layer_2", "layer_3">>

\* the names supervised() registers a hook under: 'emb', 'layer_i', 'logistic'
supervised_no_hooks(m) == {}
supervised_hooks(m) ==
    (IF m.add_emb THEN {"emb"} ELSE {})
        \cup {LayerNames[i] : i \in 1..m.num_layer} \cup {"logistic"}

\* what a forward pass of the model leaves hooked on its output
forward_hooks(a, m) ==
    IF a = "model_layers" /\ m.kind \in GraphNetworkKinds THEN supervised_hooks(m)
    ELSE {}

\* ------------------------------------------------------------ get_model
\* what a load did with the supplied state sd, for a model whose state was own
Compatible(own, e) == e.name \in DOMAIN own /\ copy_(own[e.name], e) = "ok"
Rejected(own, e) == e.name \in DOMAIN own /\ copy_(own[e.name], e) # "ok"
Report(call, own, sd, r) ==
    [call EXCEPT
        !.ignored = \E i \in DOMAIN sd : sd[i].name \notin DOMAIN own,
        !.skipped = \E i \in DOMAIN sd : Rejected(own, sd[i]),
        !.copied = \E i \in DOMAIN sd :
                      Compatible(own, sd[i]) /\ sd[i].val # own[sd[i].name].val,
        !.late_copy = \E i, j \in DOMAIN sd :
                      /\ i < j
                      /\ ~Compatible(own, sd[i])
                      /\ Compatible(own, sd[j]) /\ sd[j].val # own[sd[j].name].val,
        !.kept = \E n \in DOMAIN own :
                      /\ own[n].val # 0
                      /\ \A i \in DOMAIN sd : sd[i].name = n => Rejected(own, sd[i])
                      /\ \E i \in DOMAIN sd : Compatible(own, sd[i]),
        !.all_copied = \A i \in DOMAIN sd :
                      Compatible(own, sd[i]) => r.st[sd[i].name].val = sd[i].val,
        !.others_kept = \A n \in DOMAIN own :
                      (\A i \in DOMAIN sd : sd[i].name = n => Rejected(own, sd[i]))
                          => r.st[n] = own[n]]

NoResult(exc, call, constructed) ==
    [exc |-> exc, model |-> NoModel, own |-> NoState, call |-> call,
     constructed |-> constructed]

get_model_new(model, graph_given, opt_given, use_emb, num_layer, has_state, sd) ==
    LET k == select_new(model)
        env_ok == /\ (k \in NeedsGraph => graph_given)
                  /\ (k \in {"gcn", "lcg", "sgc"} => opt_given)
        call == [Call("get_model") EXCEPT !.with_state = has_state, !.env_ok = env_ok,
                                          !.graph_given = graph_given]
        m == [kind |-> k, add_emb |-> use_emb /\ k \in GraphNetworkKinds,
              num_layer |-> num_layer]
        fresh == FreshState(k)
    IN  IF k = "ValueError" THEN NoResult("ValueError", call, FALSE)
        ELSE IF k \in NeedsGraph /\ ~graph_given THEN NoResult("AssertionError", call, FALSE)
        ELSE IF k \in {"gcn", "lcg", "sgc"} /\ ~opt_given
        THEN NoResult("AttributeError", call, FALSE)
        ELSE IF ~has_state
        THEN [exc |-> "none", model |-> m, own |-> fresh, call |-> call,
              constructed |-> TRUE]
        ELSE LET r == load_state_dict("model_layers", k, fresh,
                                      UpdatedStateDict(k, fresh, sd))
                 rep == Report(call, fresh, sd, r)
             IN IF r.exc # "none" THEN NoResult(r.exc, rep, TRUE)
                ELSE [exc |-> "none", model |-> m, own |-> r.st, call |-> rep,
                      constructed |-> TRUE]

get_model_old(model, dataset_name, use_emb, num_layer) ==
    LET k == select_old(model)
        call == [Call("get_model") EXCEPT !.env_ok = (k = "cnn" => dataset_name = "percolate")]
        m == [kind |-> k, add_emb |-> use_emb /\ k \in GraphNetworkKinds,
              num_layer |-> num_layer]
    IN  IF k = "ValueError" THEN NoResult("ValueError", call, FALSE)
        ELSE IF k = "cnn" /\ dataset_name # "percolate"
        THEN NoResult("AssertionError", call, FALSE)
        ELSE [exc |-> "none", model |-> m, own |-> FreshState(k), call |-> call,
              constructed |-> TRUE]

\* ---------------------------------------------------------------- actions
slr_rest == <<lap0, slr_weight, slr_pc>>
cycle_rest == <<phase, hooks, grads, gene_invoked, steps, reg_out>>

Built(r) ==
    /\ pc' = IF r.exc = "none" THEN "built" ELSE "failed"
    /\ my_model' = r.model
    /\ own_state' = r.own
    /\ raised' = r.exc
    /\ last_call' = r.call

\* the sparse-logistic constructor zeroes the diagonal of the array it is given
ConstructsSLR(r, model, adj, lap) ==
    IF r.constructed /\ model = "slr"
    THEN graph_adj' = adj /\ laplacian' = lap
    ELSE UNCHANGED <<graph_adj, laplacian>>

\* what the constructor makes of the provider's array: the array with its
\* diagonal zeroed, and the Laplacian of that
ZeroedAdj == fill_diagonal(graph_adj, Len(graph_adj))

GetModelNew(Embs, Layers, HasState, SDs) ==
    /\ api = "model_layers" /\ pc = "start"
    /\ \E adj \in {ZeroedAdj} : \E lap \in {Laplacian(adj, Len(adj))} :
          \E model \in ModelNames, graph_given, opt_given \in BOOLEAN,
             use_emb \in Embs, num_layer \in Layers, has_state \in HasState,
             sd \in SDs :
             /\ ~has_state => sd = <<>>
             /\ requested' = model
             /\ LET r == get_model_new(model, graph_given, opt_given, use_emb,
                                       num_layer, has_state, sd)
                IN Built(r) /\ ConstructsSLR(r, model, adj, lap)
    /\ UNCHANGED <<api, cycle_rest, slr_rest, aux_vars>>

GetModelOld(Embs, Layers) ==
    /\ api = "models" /\ pc = "start"
    /\ \E adj \in {ZeroedAdj} : \E lap \in {Laplacian(adj, Len(adj))} :
          \E model \in ModelNames, dataset_name \in {"percolate", "random"},
             use_emb \in Embs, num_layer \in Layers :
             /\ requested' = model
             /\ LET r == get_model_old(model, dataset_name, use_emb, num_layer)
                IN Built(r) /\ ConstructsSLR(r, model, adj, lap)
    /\ UNCHANGED <<api, cycle_rest, slr_rest, aux_vars>>

\* my_model.load_state_dict(state_dict)
LoadStateDict(SDs) ==
    /\ pc = "built"
    /\ \E sd \in SDs :
          LET r == load_state_dict(api, my_model.kind, own_state, sd) IN
          /\ own_state' = r.st
          /\ raised' = r.exc
          /\ last_call' = Report([Call("load_state_dict") EXCEPT !.with_state = TRUE,
                                     !.env_ok = TRUE], own_state, sd, r)
    /\ UNCHANGED <<api, pc, requested, my_model, cycle_rest, graph_adj, slr_vars, aux_vars>>

\* y_pred = my_model(inputs): forward() runs supervised()
Forward ==
    /\ pc = "built"
    /\ phase' = "forwarded"
    /\ hooks' = forward_hooks(api, my_model)
    /\ raised' = "none"
    /\ last_call' = Call("forward")
    /\ UNCHANGED <<api, pc, requested, my_model, own_state, grads, gene_invoked,
                   steps, reg_out, graph_adj, slr_vars, aux_vars>>

\* gene_inference and semi_supervised end in a layer __init__ never creates
MissingLayer(op) ==
    /\ pc = "built" /\ api = "model_layers" /\ my_model.kind \in GraphNetworkKinds
    /\ raised' = "AttributeError"
    /\ last_call' = Call(op)
    /\ UNCHANGED <<api, pc, requested, my_model, own_state, phase, hooks, grads,
                   steps, reg_out, graph_adj, slr_vars, aux_vars>>

GeneInference == MissingLayer("gene_inference") /\ gene_invoked' = TRUE
SemiSupervised == MissingLayer("semi_supervised") /\ UNCHANGED gene_invoked

\* total_loss.backward(): every hook on the graph stores its gradient
Backward ==
    /\ pc = "built" /\ phase = "forwarded"
    /\ phase' = "backwarded"
    /\ grads' = grads \cup hooks
    /\ raised' = "none"
    /\ last_call' = Call("backward")
    /\ UNCHANGED <<api, pc, requested, my_model, own_state, hooks, gene_invoked,
                   steps, reg_out, graph_adj, slr_vars, aux_vars>>

\* optimizer.step(): the parameters move
OptimizerStep ==
    /\ pc = "built" /\ phase = "backwarded" /\ steps < MaxSteps
    /\ \E f \in [DOMAIN own_state -> Vals] :
          own_state' = [n \in DOMAIN own_state |-> [own_state[n] EXCEPT !.val = f[n]]]
    /\ steps' = steps + 1
    /\ phase' = "idle"
    /\ raised' = "none"
    /\ last_call' = Call("step")
    /\ UNCHANGED <<api, pc, requested, my_model, hooks, grads, gene_invoked,
                   reg_out, graph_adj, slr_vars, aux_vars>>

\* my_model.regularization(reg_lambda) of model_layers.py
Regularization ==
    /\ pc = "built" /\ api = "model_layers"
    /\ \E reg_lambda \in 0..MaxLambda :
          /\ reg_out' = regularization(my_model.kind, own_state, laplacian, reg_lambda)
          /\ last_call' = [Call("regularization") EXCEPT !.arg = reg_lambda]
    /\ raised' = "none"
    /\ UNCHANGED <<api, pc, requested, my_model, own_state, phase, hooks, grads,
                   gene_invoked, steps, graph_adj, slr_vars, aux_vars>>

\* main of the older pairing: the regularization term of the loss
LossAssembly ==
    /\ pc = "built" /\ api = "models" /\ phase = "forwarded"
    /\ \E lambdas \in SeqsUpTo(0..MaxLambda, MaxLambdas) :
          /\ reg_out' = other_loss(regularization_old(my_model.kind, own_state, laplacian),
                                   lambdas)
          /\ last_call' = [Call("loss") EXCEPT !.arg = SeqSum(lambdas)]
    /\ raised' = "none"
    /\ UNCHANGED <<api, pc, requested, my_model, own_state, phase, hooks, grads,
                   gene_invoked, steps, graph_adj, slr_vars, aux_vars>>

\* ------------------------------------------------------- specifications
\* the adjacency the provider hands to the lifecycle part: complete, with
\* self-loops
LifecycleGraph == [i \in 1..NbNodes |-> [j \in 1..NbNodes |-> 1]]

LifecycleStart ==
    /\ pc = "start" /\ requested = "none" /\ my_model = NoModel
    /\ own_state = NoState /\ raised = "none" /\ last_call = NoCall
    /\ phase = "idle" /\ hooks = {} /\ grads = {} /\ gene_invoked = FALSE
    /\ steps = 0 /\ reg_out = 0

SLRStart == laplacian = <<>> /\ lap0 = <<>> /\ slr_weight = <<>> /\ slr_pc = "start"

NoFwdModel == [kind |-> "none", add_emb |-> FALSE, num_layer |-> 0,
               dropout |-> FALSE, training |-> FALSE]
AttnStart == attn_pc = "start" /\ attn_layer = <<>> /\ attn_x = <<>> /\ attn_out = <<>>
FwdStart == fwd_model = NoFwdModel /\ passes = <<>>

\* no GraphNetwork constructed, main() not entered, no adjacency transformed
NoNet == [built |-> FALSE]
NoShape == [nodes |-> 0, channels |-> 0, flat |-> FALSE]
NoNetResult == [op |-> "none", exc |-> "none", shape |-> NoShape, keys |-> {}]
NoRun == [pc |-> "start", epoch |-> 0, batches |-> 0, t |-> 0, b |-> 0,
          steps |-> 0, recorded |-> 0, params |-> 0, loss_bound |-> FALSE,
          training |-> TRUE, regs |-> <<>>, lambdas |-> <<>>, other_loss |-> 0,
          aucs |-> <<>>, max_valid |-> 0, best |-> -1]
NoPrune == [done |-> FALSE]
NoDrop == [built |-> FALSE]
NoL1 == [called |-> FALSE]
MoreStart ==
    /\ net = NoNet /\ net_trace = <<>> /\ net_result = NoNetResult
    /\ run = NoRun /\ prune = NoPrune
    /\ drop = NoDrop /\ l1 = NoL1

Init ==
    /\ api \in {"model_layers", "models"}
    /\ LifecycleStart
    /\ graph_adj = LifecycleGraph
    /\ SLRStart
    /\ AttnStart
    /\ MoreStart
    /\ rng = 0 /\ FwdStart

\* Spec: the life of a model, from get_model through training
Next ==
    \/ GetModelNew(BOOLEAN, 1..MaxLayers, {FALSE}, {<<>>})
    \/ GetModelOld(BOOLEAN, 1..MaxLayers)
    \/ Forward
    \/ Backward
    \/ OptimizerStep
    \/ Regularization
    \/ LossAssembly
    \/ GeneInference
    \/ SemiSupervised
    \/ LoadStateDict(Reloads)

Spec == Init /\ [][Next]_vars

\* SpecLoad: get_model with a snapshot, and load_state_dict on the model
NextLoad ==
    \/ GetModelNew({FALSE}, {1}, BOOLEAN, StateDicts)
    \/ GetModelOld({FALSE}, {1})
    \/ LoadStateDict(StateDicts)

SpecLoad == Init /\ [][NextLoad]_vars

\* ------------------------------------------------ properties of the life cycle
\* the kinds whose regularization is the constant one
PlainKinds == GraphNetworkKinds \cup {"mlp", "lr", "random", "cnn"}

\* the tolerant loader ran last: GraphNetwork.load_state_dict on a model of
\* model_layers, called directly or by get_model(model_state=...)
TolerantLoadRan ==
    /\ api = "model_layers" /\ my_model.kind \in GraphNetworkKinds
    /\ last_call.op \in {"load_state_dict", "get_model"} /\ last_call.with_state

\* C1: get_model called with a name outside the supported set of its module
\* raises ValueError at construction: no model is returned, and no forward,
\* backward or optimizer step is ever taken.
C1_InvalidNameRaises ==
    (pc # "start" /\ requested \notin SupportedNames(api)) =>
        /\ pc = "failed" /\ raised = "ValueError" /\ my_model = NoModel
        /\ phase = "idle" /\ steps = 0

C1_Witness ==
    /\ pc = "failed" /\ requested = "resnet" /\ raised = "ValueError"

\* C2: GraphNetwork.load_state_dict never raises, whatever the state mapping:
\* an entry of unknown name is ignored, an incompatible one is skipped, and
\* every entry of matching name and shape is copied, wherever it stands.
C2_TolerantLoadNeverRaises ==
    TolerantLoadRan => (raised = "none" /\ pc = "built" /\ last_call.all_copied)

C2_Witness ==
    /\ TolerantLoadRan /\ last_call.op = "load_state_dict"
    /\ last_call.skipped /\ last_call.late_copy

\* C3: after a load, every parameter that is absent from the state, or whose
\* entry was skipped as incompatible, holds the value it had before the load.
C3_OthersKeepTheirValues == TolerantLoadRan => last_call.others_kept

C3_Witness ==
    /\ TolerantLoadRan /\ last_call.op = "load_state_dict"
    /\ last_call.kept /\ last_call.copied

\* C4: get_model(model_state=...) is best-effort for every variant it builds:
\* with the graph and options it needs, a snapshot with unknown keys or
\* incompatible tensors never makes it fail, and the model is returned.
C4_RestoreIsBestEffort ==
    (/\ api = "model_layers" /\ requested \in NewModels
     /\ last_call.op = "get_model" /\ last_call.with_state /\ last_call.env_ok)
        => (raised = "none" /\ pc = "built" /\ my_model.kind = requested)

\* a snapshot with an unknown key makes get_model('mlp', ...) raise KeyError
C4_Witness ==
    /\ api = "model_layers" /\ requested = "mlp" /\ last_call.op = "get_model"
    /\ last_call.with_state /\ last_call.ignored
    /\ raised = "KeyError" /\ pc = "failed"

\* C5: the regularization of a plain model is exactly 0 for every reg_lambda,
\* in every state the model reaches by forward passes, optimizer steps and
\* reloads; so is the summed term the older driver adds to the loss.
C5_PlainRegularizationIsZero ==
    /\ my_model.kind \in PlainKinds => reg_out = 0
    /\ \A reg_lambda \in 0..MaxLambda :
          my_model.kind \in PlainKinds /\ api = "model_layers" =>
              regularization(my_model.kind, own_state, laplacian, reg_lambda) = 0
    /\ \A lambdas \in SeqsUpTo(0..MaxLambda, MaxLambdas) :
          my_model.kind \in PlainKinds /\ api = "models" =>
              other_loss(regularization_old(my_model.kind, own_state, laplacian),
                         lambdas) = 0

C5_Witness ==
    /\ my_model.kind \in GraphNetworkKinds /\ api = "model_layers"
    /\ last_call.op = "regularization" /\ last_call.arg > 0
    /\ steps > 0 /\ \E n \in DOMAIN own_state : own_state[n].val # 0

SLRNodes == 3
SLROutDim == 1
SLRNodeSet == 1..SLRNodes

Symmetric(a) == \A i, j \in DOMAIN a : a[i][j] = a[j][i]

\* the upper triangle (i < j) decides the matrix; the diagonal is all 0 or all 1
EdgePairs == {p \in SLRNodeSet \X SLRNodeSet : p[1] < p[2]}
AdjOf(f, self) ==
    [i \in SLRNodeSet |-> [j \in SLRNodeSet |->
        IF i = j THEN self ELSE IF i < j THEN f[<<i, j>>] ELSE f[<<j, i>>]]]
ProviderAdjacencies ==
    {AdjOf(f, self) : f \in [EdgePairs -> 0..MaxWeight], self \in {0, 1}}

SLRWeights == [1..SLROutDim -> [SLRNodeSet -> {-1, 0, 1}]]

\* my_model.parameters(): the tensors the optimizer updates.  The Laplacian
\* is a plain tensor attribute, not a registered parameter.
SLR_parameters_with_laplacian == {"weight", "bias", "laplacian"}
SLR_parameters == {"weight", "bias"}

\* what a step may turn a tensor the optimizer owns into
Perturbed(lap) ==
    {lap} \cup {[lap EXCEPT ![1][SLRNodes] = lap[1][SLRNodes] - 1]}

\* SparseLogisticRegression.__init__
SLRConstruct ==
    /\ slr_pc = "start"
    /\ \E adj \in {ZeroedAdj} : \E lap \in {Laplacian(adj, Len(adj))} :
          /\ graph_adj' = adj
          /\ laplacian' = lap
          /\ lap0' = lap
          /\ slr_weight' \in SLRWeights
    /\ slr_pc' = "built"
    /\ last_call' = Call("slr_init")
    /\ UNCHANGED <<api, pc, requested, my_model, own_state, raised, cycle_rest, aux_vars>>

\* SparseLogisticRegression.forward
SLRForward ==
    /\ slr_pc = "built"
    /\ phase' = "forwarded"
    /\ last_call' = Call("slr_forward")
    /\ UNCHANGED <<api, pc, requested, my_model, own_state, raised, hooks, grads,
                   gene_invoked, steps, reg_out, graph_adj, slr_vars, aux_vars>>

\* SparseLogisticRegression.regularization(reg_lambda), in the loss of a pass
SLRRegularization ==
    /\ slr_pc = "built" /\ phase = "forwarded"
    /\ \E reg_lambda \in 0..MaxLambda :
          /\ reg_out' = SLR_regularization(slr_weight, laplacian, reg_lambda)
          /\ last_call' = [Call("slr_regularization") EXCEPT !.arg = reg_lambda]
    /\ phase' = "regularized"
    /\ UNCHANGED <<api, pc, requested, my_model, own_state, raised, hooks, grads,
                   gene_invoked, steps, graph_adj, slr_vars, aux_vars>>

\* total_loss.backward(); optimizer.step(): the parameters move
SLRStep ==
    /\ slr_pc = "built" /\ phase = "regularized" /\ steps < MaxSteps
    /\ slr_weight' \in SLRWeights
    /\ laplacian' \in (IF "laplacian" \in SLR_parameters THEN Perturbed(laplacian)
                       ELSE {laplacian})
    /\ steps' = steps + 1
    /\ phase' = "idle"
    /\ last_call' = Call("slr_step")
    /\ UNCHANGED <<api, pc, requested, my_model, own_state, raised, hooks, grads,
                   gene_invoked, reg_out, graph_adj, lap0, slr_pc, aux_vars>>

InitSLR ==
    /\ api = "model_layers"
    /\ LifecycleStart
    /\ graph_adj \in ProviderAdjacencies
    /\ SLRStart
    /\ AttnStart
    /\ MoreStart
    /\ rng = 0 /\ FwdStart

NextSLR ==
    \/ SLRConstruct
    \/ SLRForward
    \/ SLRRegularization
    \/ SLRStep

SpecSLR == InitSLR /\ [][NextSLR]_vars

C7_LaplacianFixed ==
    slr_pc = "built" =>
        /\ laplacian = lap0
        /\ Symmetric(laplacian)
        /\ \A i, j \in SLRNodeSet :
              /\ i = j => (graph_adj[i][i] = 0 /\ laplacian[i][i] = Scale)
              /\ i # j => (laplacian[i][j] <= 0
                             /\ (laplacian[i][j] = 0 <=> graph_adj[i][j] = 0))

C7_Witness ==
    /\ slr_pc = "built" /\ steps = MaxSteps /\ phase = "regularized"
    /\ \E i, j \in SLRNodeSet : i # j /\ laplacian[i][j] # 0 /\ laplacian[i][j] = laplacian[j][i]

\* node i has no edge to another node
Isolated(adj, i) == \A j \in 1..Len(adj) : j # i => adj[i][j] = 0 /\ adj[j][i] = 0

\* C17: degree normalization puts no NaN or Inf into the normalized matrix,
\* isolated (zero-degree) nodes included: every entry of the Laplacian is a
\* finite number, because the epsilon keeps every divisor nonzero.
C17_NormalizationIsFinite ==
    slr_pc = "built"
        => \A i, j \in 1..SLRNodes :
              /\ laplacian[i][j] # NaN
              /\ Abs(laplacian[i][j]) <= RootMax

\* a model built on a graph with an isolated node next to connected ones
C17_Witness ==
    /\ slr_pc = "built"
    /\ \E i \in 1..SLRNodes : Isolated(graph_adj, i)
    /\ \E i \in 1..SLRNodes : ~Isolated(graph_adj, i)

\* ------------------------------------------------------------ AttentionLayer
\* SpecAttn: AttentionLayer.forward on every input of AttnInputs, for every
\* projection of AttnLayers.
AttnExamples == 2
AttnChannels == 1
AttnHeads == 2

AttnInputs ==
    [1..AttnExamples -> [1..AttnNodes -> [1..AttnChannels -> {0, 1}]]]
AttnLayers ==
    [w : [1..AttnHeads -> [1..AttnChannels -> {-1, 0, 1}]],
     b : [1..AttnHeads -> {-1, 1}]]

\* x.view(-1, nb_channels): row (e - 1) * nb_nodes + n is x[e][n]
ViewRows(x, nb_examples, nb_nodes) ==
    [r \in 1..(nb_examples * nb_nodes) |->
        x[((r - 1) \div nb_nodes) + 1][((r - 1) % nb_nodes) + 1]]

\* self.attn(x) * self.temperature: nn.Linear(in_dim, nb_attention_head), temperature 1
Linear(rows, layer) ==
    [r \in DOMAIN rows |-> [h \in DOMAIN layer.w |->
        SumTo([c \in DOMAIN rows[r] |-> rows[r][c] * layer.w[h][c]], AttnChannels)
            + layer.b[h]]]

\* torch.exp of a score, in tenths
ExpTenths(z) ==
    CASE z = -2 -> 1 [] z = -1 -> 4 [] z = 0 -> 10 [] z = 1 -> 27 [] z = 2 -> 74

\* .view(nb_examples, nb_nodes, nb_attention_head)
ViewCube(rows, nb_examples, nb_nodes) ==
    [e \in 1..nb_examples |-> [n \in 1..nb_nodes |-> rows[(e - 1) * nb_nodes + n]]]

\* attn_weights.sum(dim=1): over the nodes, per example and head
SumOverExamplesAndNodes(a) ==
    [e \in DOMAIN a |-> [h \in 1..AttnHeads |->
        SumTo([e2 \in DOMAIN a |->
            SumTo([n \in DOMAIN a[e2] |-> a[e2][n][h]], Len(a[e2]))], Len(a))]]
SumDim1(a) ==
    [e \in DOMAIN a |-> [h \in 1..AttnHeads |->
        SumTo([n \in DOMAIN a[e] |-> a[e][n][h]], Len(a[e]))]]

\* attn_weights / s.unsqueeze(1): each weight as <<numerator, denominator>>
DivideBroadcast(a, sums) ==
    [e \in DOMAIN a |-> [n \in DOMAIN a[e] |-> [h \in 1..AttnHeads |->
        <<a[e][n][h], sums[e][h]>>]]]

attn_weights_of(x, layer) ==
    LET nb_examples == Len(x)
        nb_nodes == Len(x[1])
        scores == Linear(ViewRows(x, nb_examples, nb_nodes), layer)
        exps == [r \in DOMAIN scores |-> [h \in DOMAIN scores[r] |->
                    ExpTenths(scores[r][h])]]
        cube == ViewCube(exps, nb_examples, nb_nodes)
    IN DivideBroadcast(cube, SumDim1(cube))

\* (x.unsqueeze(-1) * attn_weights.unsqueeze(-2)).sum(dim=1).view(nb_examples, -1):
\* column (c - 1) * heads + h, as <<numerator, denominator>>
attn_applied_of(x, weights) ==
    [e \in DOMAIN x |-> [k \in 1..(AttnChannels * AttnHeads) |->
        LET c == ((k - 1) \div AttnHeads) + 1
            h == ((k - 1) % AttnHeads) + 1
        IN <<SumTo([n \in DOMAIN x[e] |-> x[e][n][c] * weights[e][n][h][1]],
                   Len(x[e])),
             weights[e][1][h][2]>>]]

\* AttentionLayer.__init__: nn.Linear starts from arbitrary weights
AttnConstruct ==
    /\ attn_pc = "start"
    /\ attn_layer' \in AttnLayers
    /\ attn_pc' = "built"
    /\ UNCHANGED <<lifecycle_vars, reg_out, graph_adj, slr_vars, more_vars, attn_x, attn_out,
                   fwd_vars>>

\* AttentionLayer.forward(x)
AttnForward ==
    /\ attn_pc \in {"built", "done"}
    /\ \E x \in AttnInputs :
          /\ attn_x' = x
          /\ LET weights == attn_weights_of(x, attn_layer)
             IN attn_out' = [applied |-> attn_applied_of(x, weights),
                             weights |-> weights]
    /\ attn_pc' = "done"
    /\ UNCHANGED <<lifecycle_vars, reg_out, graph_adj, slr_vars, more_vars, attn_layer, fwd_vars>>

InitAttn == Init /\ api = "model_layers"

NextAttn ==
    \/ AttnConstruct
    \/ AttnForward

SpecAttn == InitAttn /\ [][NextAttn]_vars

\* C8: in AttentionLayer.forward, for every example and every head, the
\* returned per-node weights are positive and sum to 1 over the nodes: they
\* share one denominator per example and head, which is the sum of their
\* numerators.
C8_WeightsSumToOne ==
    attn_pc = "done" =>
        \A e \in 1..AttnExamples, h \in 1..AttnHeads :
            LET w == attn_out.weights[e] IN
            /\ \A n \in 1..AttnNodes : w[n][h][1] > 0 /\ w[n][h][2] = w[1][h][2]
            /\ SumTo([n \in 1..AttnNodes |-> w[n][h][1]], AttnNodes) = w[1][h][2]

\* the weights differ between nodes, between heads and between examples
C8_Witness ==
    /\ attn_pc = "done"
    /\ attn_out.weights[1][1][1] # attn_out.weights[1][AttnNodes][1]
    /\ attn_out.weights[1][1][1] # attn_out.weights[1][1][AttnHeads]
    /\ attn_out.weights[1][1][1][2] # attn_out.weights[AttnExamples][1][1][2]

\* ------------------------------------------ GraphNetwork.supervised, dropout
\* SpecFwd: forward passes of one GraphNetwork (no embedding, no gate, no
\* attention head) with fixed parameters, with and without dropout, in
\* training and in evaluation mode, under the generator main seeds once.
FwdExamples == 1
FwdNodes == 2
RngModulus == 16
Seed == 1993

\* the generator: a full-period linear congruential sequence
NextRng(r) == (5 * r + 3) % RngModulus

RECURSIVE Advance(_, _)
Advance(r, k) == IF k = 0 THEN r ELSE Advance(NextRng(r), k - 1)

DropoutP10_uncapped(id_layer) == id_layer + 1
\* torch.nn.Dropout(int(dropout) * min((id_layer + 1) / 10., 0.4)): p in tenths
DropoutP10(id_layer) == Min(id_layer + 1, 4)

\* a Dropout module draws a mask only while the model is in training mode
DropoutAlways(m) == m.dropout
DropoutActive(m) == m.dropout /\ m.training

\* dropout(ones(nb_examples, nb_nodes)): k draws, an element kept when the
\* uniform draw r / RngModulus is at least p
RECURSIVE DrawMask(_, _, _)
DrawMask(r, k, p10) ==
    IF k = 0 THEN [mask |-> <<>>, rng |-> r]
    ELSE LET r1 == NextRng(r)
             keep == IF r1 * 10 >= p10 * RngModulus THEN 1 ELSE 0
             rest == DrawMask(r1, k - 1, p10)
         IN [mask |-> <<keep>> \o rest.mask, rng |-> rest.rng]

\* the fixed parameters and graph of the model
FwdAdj == <<<<1, 1>>, <<0, 1>>>>
FwdConvWeight == 1
FwdLogisticWeight == <<1, 2>>
FwdInputs == {<<<<1, 1>>>>, <<<<1, 2>>>>}

\* layer(x): propagate the node features over the adjacency, mix the channel
GraphConv(x) ==
    [e \in DOMAIN x |-> [n \in 1..FwdNodes |->
        FwdConvWeight * SumTo([k \in 1..FwdNodes |-> FwdAdj[n][k] * x[e][k]], FwdNodes)]]

relu(x) == [e \in DOMAIN x |-> [n \in DOMAIN x[e] |-> IF x[e][n] > 0 THEN x[e][n] ELSE 0]]

\* x * id_to_keep.  Activations are held in units of 1 / (10 - p10) per
\* layer passed: a kept element is scaled by 1 / (1 - p) = 10 / (10 - p10),
\* a pass without mask leaves the value as it is.
ApplyMask(x, mask, p10) ==
    [e \in DOMAIN x |-> [n \in DOMAIN x[e] |->
        x[e][n] * mask[(e - 1) * FwdNodes + n] * 10]]
NoMask(x, p10) == [e \in DOMAIN x |-> [n \in DOMAIN x[e] |-> x[e][n] * (10 - p10)]]

\* the loop of supervised over zip(my_convs, gates, my_dropouts), from layer i
RECURSIVE supervised_layers(_, _, _, _, _)
supervised_layers(m, i, x, r, dropped) ==
    IF i = m.num_layer THEN [x |-> x, rng |-> r, dropped |-> dropped]
    ELSE LET y == relu(GraphConv(x))
             p10 == DropoutP10(i)
         IN IF DropoutActive(m)
            THEN LET d == DrawMask(r, FwdExamples * FwdNodes, p10)
                 IN supervised_layers(m, i + 1, ApplyMask(y, d.mask, p10), d.rng,
                                      dropped \/ (\E j \in DOMAIN d.mask : d.mask[j] = 0))
            ELSE supervised_layers(m, i + 1, NoMask(y, p10), r, dropped)

\* self.my_logistic_layers[-1](x.view(nb_examples, -1))
Logistic(x) ==
    [e \in DOMAIN x |-> SumTo([n \in 1..FwdNodes |-> FwdLogisticWeight[n] * x[e][n]],
                              FwdNodes)]

supervised(m, x, r) ==
    LET h == supervised_layers(m, 0, x, r, FALSE)
    IN [out |-> Logistic(h.x), rng |-> h.rng, dropped |-> h.dropped]

\* torch.manual_seed(seed)
ManualSeed ==
    /\ rng' = Seed % RngModulus
    /\ UNCHANGED <<lifecycle_vars, reg_out, graph_adj, slr_vars, more_vars, attn_vars,
                   fwd_model, passes>>

\* GraphNetwork.__init__: the initial weights are drawn from the generator
\* (one draw per weight); the model starts in training mode
FwdConstruct ==
    /\ fwd_model = NoFwdModel
    /\ \E dropout \in BOOLEAN, num_layer \in 1..MaxLayers :
          /\ fwd_model' = [kind |-> "gcn", add_emb |-> FALSE, num_layer |-> num_layer,
                           dropout |-> dropout, training |-> TRUE]
          /\ rng' = Advance(rng, num_layer + FwdNodes + 1)
    /\ UNCHANGED <<lifecycle_vars, reg_out, graph_adj, slr_vars, more_vars, attn_vars, passes>>

\* my_model.eval() / my_model.train()
ModelEval ==
    /\ fwd_model # NoFwdModel
    /\ fwd_model' = [fwd_model EXCEPT !.training = FALSE]
    /\ UNCHANGED <<lifecycle_vars, reg_out, graph_adj, slr_vars, more_vars, attn_vars, rng, passes>>

ModelTrain ==
    /\ fwd_model # NoFwdModel
    /\ fwd_model' = [fwd_model EXCEPT !.training = TRUE]
    /\ UNCHANGED <<lifecycle_vars, reg_out, graph_adj, slr_vars, more_vars, attn_vars, rng, passes>>

\* y_pred = my_model(inputs), twice at most
FwdSupervised ==
    /\ fwd_model # NoFwdModel /\ Len(passes) < 2
    /\ \E x \in FwdInputs :
          LET y == supervised(fwd_model, x, rng) IN
          /\ rng' = y.rng
          /\ passes' = Append(passes, [x |-> x, rng0 |-> rng,
                                       training |-> fwd_model.training,
                                       dropped |-> y.dropped, out |-> y.out])
    /\ hooks' = supervised_hooks(fwd_model)
    /\ phase' = "forwarded"
    /\ UNCHANGED <<api, pc, requested, my_model, own_state, raised, last_call, grads,
                   gene_invoked, steps, reg_out, graph_adj, slr_vars, more_vars, attn_vars,
                   fwd_model>>

\* main seeds the generator before it builds the model
InitFwd ==
    /\ api = "model_layers"
    /\ LifecycleStart
    /\ graph_adj = LifecycleGraph
    /\ SLRStart
    /\ AttnStart
    /\ MoreStart
    /\ rng = Seed % RngModulus /\ FwdStart

NextFwd ==
    \/ FwdConstruct
    \/ FwdSupervised
    \/ ModelEval
    \/ ModelTrain
    \/ ManualSeed

SpecFwd == InitFwd /\ [][NextFwd]_vars

TwoPassesSameInput == Len(passes) = 2 /\ passes[1].x = passes[2].x

\* C9 (as stated): with the seed fixed, two forward passes of the same model
\* over identical inputs with identical parameters give identical outputs in
\* every configuration, dropout in training mode included.
C9_TwoPassesAgree ==
    (TwoPassesSameInput /\ passes[1].training = passes[2].training)
        => passes[1].out = passes[2].out

\* C9 (amended): the two passes give identical outputs whenever no mask is
\* drawn (the model has no dropout, or both passes run in evaluation mode),
\* or both run in training mode from the same generator state (it was
\* re-seeded with the same seed before each).
C9_AgreeWithoutFreshMask ==
    (/\ TwoPassesSameInput
     /\ \/ ~fwd_model.dropout
        \/ ~passes[1].training /\ ~passes[2].training
        \/ passes[1].training /\ passes[2].training /\ passes[1].rng0 = passes[2].rng0)
        => passes[1].out = passes[2].out

C9_Witness ==
    /\ TwoPassesSameInput /\ fwd_model.dropout
    /\ passes[1].training /\ passes[2].training
    /\ passes[1].rng0 = passes[2].rng0
    /\ passes[1].dropped /\ passes[1].out = passes[2].out

\* ------------------------------------------- GraphNetwork: its module lists
\* The structure of a GraphNetwork: which modules __init__ builds, which of
\* them record their input and output (save_computations), and which
\* modules and operations each method applies, in order, to a tensor known
\* by its shape.
MaxExtra == 1       \* prepool_extralayers ranges over 0..MaxExtra
MaxHeads == 1       \* attention_head ranges over 0..MaxHeads
MaxNetNodes == 2    \* adj.shape[0] ranges over 1..MaxNetNodes
InputDim == 1       \* input_dim=1 as get_model passes it
EmbSize == 2        \* add_emb, when embeddings are asked for
NumChannel == 3     \* channels = [num_channel] * num_layer

NetConfigs ==
    { c \in [api : {"model_layers", "models"},
             num_layer : 1..MaxLayers,
             add_emb : {0, EmbSize},
             aggregate_adj : {"none", "keep", "coarsen"},
             prepool_extralayers : 0..MaxExtra,
             use_gate : {0, 1},
             dropout : BOOLEAN,
             attention_head : 0..MaxHeads,
             nb_nodes : 1..MaxNetNodes] :
        c.api = "models" => c.prepool_extralayers = 0 /\ c.attention_head = 0 }

\* dims = [input_dim] + channels
dims(cfg) ==
    <<IF cfg.add_emb # 0 THEN cfg.add_emb ELSE InputDim>>
        \o [i \in 1..cfg.num_layer |-> NumChannel]

\* graph_layer_type(adj, c_in, c_out, on_cuda, i, transform_adj, aggregate_adj)
\* and whether register_forward_hook(save_computations) follows it
graph_layer(id_layer, c_in, c_out, aggregate_adj, hooked) ==
    [id_layer |-> id_layer, c_in |-> c_in, c_out |-> c_out,
     pools |-> aggregate_adj = "coarsen", hooked |-> hooked]

RECURSIVE convs_from(_, _)
\* the body of the loop over enumerate(zip(dims[:-1], dims[1:])), from i on
convs_from(cfg, i) ==
    IF i >= cfg.num_layer THEN <<>>
    ELSE LET c_in == dims(cfg)[i + 1]
             c_out == dims(cfg)[i + 2]
             extra == IF cfg.aggregate_adj # "none"
                      THEN [el \in 1..cfg.prepool_extralayers |->
                               graph_layer(i, c_in, c_in, "none", FALSE)]
                      ELSE <<>>
         IN extra \o <<graph_layer(i, c_in, c_out, cfg.aggregate_adj, TRUE)>>
                  \o convs_from(cfg, i + 1)

logistic_in_dim_by_nodes(cfg) == cfg.nb_nodes * dims(cfg)[Len(dims(cfg))]
logistic_in_dim(cfg) ==
    IF cfg.attention_head > 0
    THEN cfg.attention_head * dims(cfg)[Len(dims(cfg))]
    ELSE cfg.nb_nodes * dims(cfg)[Len(dims(cfg))]

\* None in the gates list
NoGate == [in_dim |-> 0]
gates_of(cfg) ==
    IF cfg.use_gate > 0
    THEN [j \in 1..cfg.num_layer |-> [in_dim |-> dims(cfg)[j + 1]]]
    ELSE [j \in 1..cfg.num_layer |-> NoGate]

\* None in the my_dropouts list, and Dropout(p) with p in tenths
NoDropout == [present |-> FALSE, p10 |-> 0]
my_dropouts_of(cfg) ==
    [j \in 1..cfg.num_layer |->
        IF ~cfg.dropout THEN NoDropout
        ELSE [present |-> TRUE,
              p10 |-> IF cfg.api = "models" THEN Min(j - 1, 5)
                      ELSE DropoutP10(j - 1)]]

\* GraphNetwork.__init__
GraphNetwork(cfg) ==
    [built |-> TRUE, cfg |-> cfg,
     my_convs |-> convs_from(cfg, 0),
     gates |-> gates_of(cfg),
     my_dropouts |-> my_dropouts_of(cfg),
     logistic_in_dim |-> logistic_in_dim(cfg),
     seen |-> {},
     forwarded |-> FALSE]

\* one module call or tensor operation of a method body
Tok(op, i) == [op |-> op, i |-> i]

\* x of size (nb_examples, nb_nodes, nb_channels), or flat: (nb_examples, channels)
Shape(nodes, channels, flat) == [nodes |-> nodes, channels |-> channels, flat |-> flat]
InputShape(n) == Shape(n.cfg.nb_nodes, InputDim, FALSE)

\* the tensor operations that keep the size of x
SameSize == {"mul", "relu", "dropout", "hook_emb", "hook_layer", "hook_logistic"}
\* layers the methods name and __init__ never defines
Undefined == {"last_inference_layer", "last_semi_layer"}

\* does the module or operation accept x of this size
Accepts(n, sh, tok) ==
    CASE tok.op = "emb" -> ~sh.flat /\ sh.nodes \in {1, n.cfg.nb_nodes}
                                    /\ sh.channels \in {1, n.cfg.add_emb}
      [] tok.op = "conv" -> ~sh.flat /\ sh.channels = n.my_convs[tok.i].c_in
      [] tok.op = "gate" -> ~sh.flat /\ sh.channels = n.gates[tok.i].in_dim
      [] tok.op = "attention" ->
            ~sh.flat /\ sh.channels = dims(n.cfg)[Len(dims(n.cfg))]
      [] tok.op = "logistic" ->
            (IF sh.flat THEN sh.channels ELSE sh.nodes * sh.channels)
                = n.logistic_in_dim
      [] tok.op = "permute" -> ~sh.flat
      [] OTHER -> TRUE

\* the size of what it returns
SizeAfter(n, sh, tok) ==
    CASE tok.op = "emb" -> Shape(n.cfg.nb_nodes, n.cfg.add_emb, FALSE)
      [] tok.op = "conv" ->
            Shape(IF n.my_convs[tok.i].pools THEN (sh.nodes + 1) \div 2 ELSE sh.nodes,
                  n.my_convs[tok.i].c_out, FALSE)
      [] tok.op = "attention" -> Shape(0, sh.channels * n.cfg.attention_head, TRUE)
      [] tok.op = "logistic" -> Shape(0, OutDim, TRUE)
      [] tok.op = "permute" -> Shape(sh.channels, sh.nodes, FALSE)
      [] OTHER -> sh

\* the modules whose forward hook is save_computations
Recorded(n, tok) ==
    \/ tok.op \in {"emb", "gate", "attention", "logistic"}
    \/ tok.op = "conv" /\ n.my_convs[tok.i].hooked

NetState(n) == [trace |-> <<>>, shape |-> InputShape(n), exc |-> "none", seen |-> n.seen]

Apply(n, s, tok) ==
    IF s.exc # "none" THEN s
    ELSE IF tok.op \in Undefined THEN [s EXCEPT !.exc = "AttributeError"]
    ELSE IF ~Accepts(n, s.shape, tok) THEN [s EXCEPT !.exc = "RuntimeError"]
    ELSE [trace |-> Append(s.trace, tok),
          shape |-> SizeAfter(n, s.shape, tok),
          exc |-> "none",
          seen |-> IF Recorded(n, tok) THEN s.seen \cup {tok} ELSE s.seen]

RECURSIVE Execute(_, _, _)
Execute(n, s, ops) ==
    IF ops = <<>> THEN s ELSE Execute(n, Apply(n, s, Head(ops)), Tail(ops))

RECURSIVE Blocks(_, _, _)
\* block(1) \o ... \o block(last): the bodies of a for loop, in order
Blocks(block(_), j, last) ==
    IF j > last THEN <<>> ELSE block(j) \o Blocks(block, j + 1, last)

emb_ops(n, hook) ==
    IF n.cfg.add_emb = 0 THEN <<>>
    ELSE <<Tok("emb", 0)>> \o (IF hook THEN <<Tok("hook_emb", 0)>> ELSE <<>>)

dropout_ops(n, j) ==
    IF n.my_dropouts[j].present THEN <<Tok("dropout", j)>> ELSE <<>>

supervised_block_relu_first(n, j) ==
    <<Tok("conv", j), Tok("relu", j)>>
        \o (IF n.cfg.use_gate > 0 THEN <<Tok("gate", j), Tok("mul", j)>> ELSE <<>>)
        \o <<Tok("hook_layer", j - 1)>>
        \o dropout_ops(n, j)

\* the body of the loop of supervised for the j-th triple of the zip
supervised_block(n, j) ==
    <<Tok("conv", j)>>
        \o (IF n.cfg.use_gate > 0 THEN <<Tok("gate", j), Tok("mul", j)>> ELSE <<>>)
        \o <<Tok("relu", j), Tok("hook_layer", j - 1)>>
        \o dropout_ops(n, j)

\* zip(self.my_convs, self.gates, self.my_dropouts) stops with its shortest list
supervised_zip(n) == Min(Len(n.my_convs), Min(Len(n.gates), Len(n.my_dropouts)))

attention_ops(n) ==
    IF n.cfg.attention_head # 0 THEN <<Tok("attention", 0)>> ELSE <<>>

supervised_ops(n) ==
    emb_ops(n, TRUE)
        \o Blocks(LAMBDA j : supervised_block(n, j), 1, supervised_zip(n))
        \o attention_ops(n)
        \o <<Tok("logistic", 0), Tok("hook_logistic", 0)>>

\* models.py, GraphNetwork.forward: the same block without gradient hooks
forward_old_block(n, j) ==
    <<Tok("conv", j)>>
        \o (IF n.cfg.use_gate > 0 THEN <<Tok("gate", j), Tok("mul", j)>> ELSE <<>>)
        \o <<Tok("relu", j)>>
        \o dropout_ops(n, j)

forward_old_ops(n) ==
    emb_ops(n, FALSE)
        \o Blocks(LAMBDA j : forward_old_block(n, j), 1, supervised_zip(n))
        \o <<Tok("logistic", 0)>>

gene_inference_block(n, j) ==
    <<Tok("conv", j), Tok("relu", j), Tok("hook_layer", j - 1)>> \o dropout_ops(n, j)

gene_inference_ops(n) ==
    emb_ops(n, TRUE)
        \o Blocks(LAMBDA j : gene_inference_block(n, j), 1,
                  Min(Len(n.my_convs), Len(n.my_dropouts)))
        \o (IF n.cfg.attention_head # 0
            THEN <<Tok("attention", 0), Tok("last_inference_layer", 0)>>
            ELSE <<Tok("permute", 0), Tok("last_inference_layer", 0),
                   Tok("permute", 0)>>)

semi_supervised_block(n, j) == <<Tok("conv", j), Tok("relu", j)>>

semi_supervised_ops(n) ==
    emb_ops(n, FALSE)
        \o Blocks(LAMBDA j : semi_supervised_block(n, j), 1, Len(n.my_convs))
        \o <<Tok("permute", 0), Tok("last_semi_layer", 0), Tok("permute", 0)>>

\* get_representation: the modules whose .input and .output add_rep reads,
\* as <<module, key>>, in the order it reads them
representation_block(n, j) ==
    <<<<Tok("conv", j), Tok("layer", j - 1)>>>>
        \o (IF n.cfg.use_gate > 0
            THEN <<<<Tok("gate", j), Tok("gate", j - 1)>>>> ELSE <<>>)

representation_reads(n) ==
    (IF n.cfg.add_emb # 0 THEN <<<<Tok("emb", 0), Tok("emb", 0)>>>> ELSE <<>>)
        \o Blocks(LAMBDA j : representation_block(n, j), 1,
                  Min(Len(n.my_convs), Len(n.gates)))
        \o <<<<Tok("logistic", 0), Tok("logistic", 0)>>>>
        \o (IF n.cfg.attention_head # 0
            THEN <<<<Tok("attention", 0), Tok("attention", 0)>>>> ELSE <<>>)

\* a module save_computations never ran on has no attribute input
get_representation(n) ==
    LET reads == representation_reads(n) IN
    IF \E k \in 1..Len(reads) : reads[k][1] \notin n.seen
    THEN [op |-> "get_representation", exc |-> "AttributeError",
          shape |-> NoShape, keys |-> {}]
    ELSE [op |-> "get_representation", exc |-> "none",
          shape |-> NoShape, keys |-> {reads[k][2] : k \in 1..Len(reads)}]

NetReturn(op, s) ==
    [op |-> op, exc |-> s.exc,
     shape |-> IF s.exc = "none" THEN s.shape ELSE NoShape, keys |-> {}]

net_rest == <<lifecycle_vars, reg_out, graph_adj, slr_vars, attn_vars, fwd_vars,
              run, prune, late_vars>>

NetConstruct ==
    /\ ~net.built
    /\ \E cfg \in NetConfigs : net' = GraphNetwork(cfg)
    /\ UNCHANGED <<net_trace, net_result, net_rest>>

\* my_model(x): forward, which in model_layers.py is supervised
NetSupervised ==
    /\ net.built
    /\ \E s \in {Execute(net, NetState(net),
                         IF net.cfg.api = "models" THEN forward_old_ops(net)
                         ELSE supervised_ops(net))} :
        /\ net' = [net EXCEPT !.seen = s.seen,
                              !.forwarded = net.forwarded \/ s.exc = "none"]
        /\ net_trace' = s.trace
        /\ net_result' = NetReturn("supervised", s)
    /\ UNCHANGED net_rest

NetGeneInference ==
    /\ net.built /\ net.cfg.api = "model_layers"
    /\ \E s \in {Execute(net, NetState(net), gene_inference_ops(net))} :
        /\ net' = [net EXCEPT !.seen = s.seen]
        /\ net_trace' = s.trace
        /\ net_result' = NetReturn("gene_inference", s)
    /\ UNCHANGED net_rest

NetSemiSupervised ==
    /\ net.built /\ net.cfg.api = "model_layers"
    /\ \E s \in {Execute(net, NetState(net), semi_supervised_ops(net))} :
        /\ net' = [net EXCEPT !.seen = s.seen]
        /\ net_trace' = s.trace
        /\ net_result' = NetReturn("semi_supervised", s)
    /\ UNCHANGED net_rest

NetGetRepresentation ==
    /\ net.built /\ net.cfg.api = "model_layers"
    /\ net_result' = get_representation(net)
    /\ UNCHANGED <<net, net_trace, net_rest>>

NextNet ==
    \/ NetConstruct
    \/ NetSupervised
    \/ NetGeneInference
    \/ NetSemiSupervised
    \/ NetGetRepresentation

\* SpecNet: one GraphNetwork, any options, its methods called in any order
InitNet == Init /\ api = "model_layers"
SpecNet == InitNet /\ [][NextNet]_vars

\* the options under which __init__ puts extra layers before each pooling
ExtraLayers(n) == n.cfg.aggregate_adj # "none" /\ n.cfg.prepool_extralayers > 0

\* the keys the representation is to hold: one per graph-convolution layer,
\* the read-out, and emb, one per gate, attention when configured
ExpectedKeys(n) ==
    {Tok("layer", k - 1) : k \in 1..Len(n.my_convs)}
        \cup {Tok("logistic", 0)}
        \cup (IF n.cfg.add_emb # 0 THEN {Tok("emb", 0)} ELSE {})
        \cup (IF n.cfg.use_gate > 0
              THEN {Tok("gate", k - 1) : k \in 1..Len(n.gates)} ELSE {})
        \cup (IF n.cfg.attention_head # 0 THEN {Tok("attention", 0)} ELSE {})

\* C11: after a forward pass, get_representation returns a mapping with an
\* entry for every graph-convolution layer and the final logistic layer,
\* and an entry for the embedding, each gate and the attention layer
\* exactly when that component is configured.
C11_RepresentationCoversEveryLayer ==
    (net.built /\ net.forwarded /\ net_result.op = "get_representation")
        => (net_result.exc = "none" /\ net_result.keys = ExpectedKeys(net))

\* with extra layers before pooling, the call made after a forward pass that
\* returned raises AttributeError instead of returning the mapping
C11_Witness ==
    /\ net.built /\ net.forwarded /\ ExtraLayers(net)
    /\ net_result.op = "get_representation"
    /\ net_result.exc = "AttributeError"

\* C12: semi_supervised applies every graph-convolution layer with ReLU and
\* returns an output of shape [batch, nodes, outputs].
C12_SemiSupervisedReturns ==
    (net.built /\ net_result.op = "semi_supervised")
        => (net_result.exc = "none" /\ ~net_result.shape.flat
                /\ net_result.shape.nodes > 0)

\* every graph-convolution layer was applied, and the call raised
C12_Witness ==
    /\ net.built /\ net_result.op = "semi_supervised"
    /\ Len(SelectSeq(net_trace, LAMBDA t : t.op = "conv")) = Len(net.my_convs)
    /\ net_result.exc = "AttributeError"

\* the modules and tensor operations of a trace, gradient hooks left out
ModuleOps(trace) ==
    SelectSeq(trace, LAMBDA t : t.op \in {"emb", "conv", "gate", "mul", "relu",
                                          "dropout", "attention", "logistic"})

\* C13: gene_inference applies the same sequence as supervised (optional
\* embedding, each layer with optional gating, ReLU and dropout, optional
\* attention, the read-out), records gradient hooks, and returns logits.
C13_GeneInferenceMirrorsSupervised ==
    (net.built /\ net_result.op = "gene_inference")
        => /\ net_result.exc = "none"
           /\ ModuleOps(net_trace) = ModuleOps(supervised_ops(net))

\* with gating configured the call applied no gate, and it raised
C13_Witness ==
    /\ net.built /\ net_result.op = "gene_inference"
    /\ net.cfg.use_gate > 0
    /\ \A k \in 1..Len(net_trace) : net_trace[k].op # "gate"
    /\ \E k \in 1..Len(net_trace) : net_trace[k].op = "hook_layer"
    /\ net_result.exc = "AttributeError"

ConvsApplied(trace) ==
    LET convs == SelectSeq(trace, LAMBDA t : t.op = "conv")
    IN [k \in 1..Len(convs) |-> convs[k].i]

\* C19: the supervised pass applies every layer of my_convs exactly once, in
\* construction order, extra layers before pooling included.
C19_EveryConvAppliedOnce ==
    (net.built /\ net.cfg.api = "model_layers"
        /\ net_result.op = "supervised" /\ net_result.exc = "none")
        => ConvsApplied(net_trace) = [k \in 1..Len(net.my_convs) |-> k]

\* a pass that returned its logits having applied fewer layers than built
C19_Witness ==
    /\ net.built /\ ExtraLayers(net)
    /\ net_result.op = "supervised" /\ net_result.exc = "none"
    /\ Len(ConvsApplied(net_trace)) < Len(net.my_convs)

\* what follows the layer applied at position p of a trace
GatedBlockAt(t, p) ==
    /\ p + 3 <= Len(t)
    /\ t[p + 1] = Tok("gate", t[p].i)
    /\ t[p + 2] = Tok("mul", t[p].i)
    /\ t[p + 3] = Tok("relu", t[p].i)
PlainBlockAt(t, p) == p + 1 <= Len(t) /\ t[p + 1] = Tok("relu", t[p].i)
\* the dropout at position p comes after the ReLU of its block, with
\* nothing but a gradient hook between them
DropoutAfterRelu(t, p) ==
    \E q \in 1..(p - 1) :
        /\ t[q] = Tok("relu", t[p].i)
        /\ \A r \in (q + 1)..(p - 1) : t[r].op = "hook_layer"

\* C20: in every hidden block of a supervised pass the gate is computed from
\* the layer's output and multiplied into it before the ReLU, and dropout
\* comes after the ReLU; with use_gate <= 0 no gate is built or applied.
C20_GateBeforeReluBeforeDropout ==
    (net.built /\ net_result.op = "supervised" /\ net_result.exc = "none")
        => /\ \A p \in 1..Len(net_trace) :
                /\ net_trace[p].op = "conv"
                     => IF net.cfg.use_gate > 0 THEN GatedBlockAt(net_trace, p)
                        ELSE PlainBlockAt(net_trace, p)
                /\ net_trace[p].op = "dropout" => DropoutAfterRelu(net_trace, p)
           /\ net.cfg.use_gate <= 0
                => /\ \A j \in 1..Len(net.gates) : net.gates[j] = NoGate
                   /\ \A p \in 1..Len(net_trace) : net_trace[p].op # "gate"

\* a pass through two gated blocks with dropout returned
C20_Witness ==
    /\ net.built /\ net.cfg.use_gate > 0 /\ net.cfg.dropout
    /\ net.cfg.num_layer >= 2
    /\ net_result.op = "supervised" /\ net_result.exc = "none"
    /\ Len(SelectSeq(net_trace, LAMBDA t : t.op = "gate")) >= 2
    /\ Len(SelectSeq(net_trace, LAMBDA t : t.op = "dropout")) >= 2

\* ------------------------------------------------------ main: training loop
MaxEpochs == 3      \* opt.epoch ranges over 0..MaxEpochs
MaxBatches == 2     \* len(train_set) ranges over 0..MaxBatches
\* the values the parameters take, each standing for one setting of them
ParamValues == {0, 1}

forward_params_touching(params) == 1 - params
\* y_pred = my_model(inputs): the parameters after the call
forward_params(params) == params

\* record_metrics_for_epoch runs the model in evaluation mode
record_params(params) == params

\* what my_model.regularization() returns in models.py: no term, or the one
\* Laplacian penalty of the sparse-logistic model (by its value)
MainRegularizers == {<<>>, <<1>>, <<2>>}
\* opt.lambdas, a list of any length
MainLambdas == {<<>>, <<0>>, <<2>>, <<1, 2>>}
\* auc['valid'] of an epoch, in units that keep it an integer
AucValues == {0, 1, 2}

train_mode_skipped(training) == training
\* my_model.train() and my_model.eval(): the flag self.training after the call
train_mode(training) == TRUE
eval_mode(training) == FALSE

new_best_any_epoch(max_valid, auc, t) == max_valid < auc
\* if max_valid < auc['valid'] and t != 0
new_best(max_valid, auc, t) == max_valid < auc /\ t # 0

main_rest == <<lifecycle_vars, reg_out, graph_adj, slr_vars, attn_vars, fwd_vars,
               net_vars, prune, late_vars>>

\* main up to the loop: options parsed, data split, model and optimizer built
MainBegin ==
    /\ run.pc = "start"
    /\ \E E \in 0..MaxEpochs, B \in 0..MaxBatches, p \in ParamValues,
          regs \in MainRegularizers, lambdas \in MainLambdas :
        run' = [NoRun EXCEPT !.pc = "epoch", !.epoch = E, !.batches = B, !.params = p,
                             !.regs = regs, !.lambdas = lambdas]
    /\ UNCHANGED main_rest

\* for t in range(epoch)
MainEpoch ==
    /\ run.pc = "epoch"
    /\ run' = IF run.t < run.epoch THEN [run EXCEPT !.pc = "batch", !.b = 0]
              ELSE [run EXCEPT !.pc = "done"]
    /\ UNCHANGED main_rest

\* for no_b, mini in enumerate(train_set)
MainBatch ==
    /\ run.pc = "batch"
    /\ run' = IF run.b < run.batches THEN [run EXCEPT !.pc = "forward"]
              ELSE [run EXCEPT !.pc = "eval"]
    /\ UNCHANGED main_rest

MainForward ==
    /\ run.pc = "forward"
    /\ run' = [run EXCEPT !.pc = "loss", !.params = forward_params(run.params)]
    /\ UNCHANGED main_rest

\* cross_loss, other_loss, l1_loss, total_loss
MainLoss ==
    /\ run.pc = "loss"
    /\ run' = [run EXCEPT !.pc = "zero_grad", !.loss_bound = TRUE,
                         !.other_loss = other_loss(run.regs, run.lambdas)]
    /\ UNCHANGED main_rest

MainZeroGrad ==
    /\ run.pc = "zero_grad"
    /\ run' = [run EXCEPT !.pc = "backward"]
    /\ UNCHANGED main_rest

MainBackward ==
    /\ run.pc = "backward"
    /\ run' = [run EXCEPT !.pc = "step"]
    /\ UNCHANGED main_rest

\* optimizer.step(), and on to the next minibatch
MainStep ==
    /\ run.pc = "step"
    /\ \E p \in ParamValues :
        run' = [run EXCEPT !.pc = "batch", !.params = p,
                           !.steps = run.steps + 1, !.b = run.b + 1]
    /\ UNCHANGED main_rest

\* my_model.eval()
MainEval ==
    /\ run.pc = "eval"
    /\ run' = [run EXCEPT !.pc = "record", !.training = eval_mode(run.training)]
    /\ UNCHANGED main_rest

\* record_metrics_for_epoch(writer, cross_loss, total_loss, ...): the names
\* cross_loss and total_loss are bound only by the body of the minibatch loop
MainRecord ==
    /\ run.pc = "record"
    /\ \E auc \in AucValues :
        run' = IF ~run.loss_bound THEN [run EXCEPT !.pc = "crashed"]
               ELSE [run EXCEPT !.pc = "train", !.recorded = run.recorded + 1,
                                !.params = record_params(run.params),
                                !.aucs = Append(run.aucs, auc)]
    /\ UNCHANGED main_rest

\* my_model.train(), the summary of the epoch, the best summary so far, and
\* on to the next epoch
MainTrain ==
    /\ run.pc = "train"
    /\ LET auc == run.aucs[Len(run.aucs)]
           better == new_best(run.max_valid, auc, run.t)
       IN run' = [run EXCEPT !.pc = "epoch", !.training = train_mode(run.training),
                             !.t = run.t + 1,
                             !.max_valid = IF better THEN auc ELSE run.max_valid,
                             !.best = IF better THEN run.t ELSE run.best]
    /\ UNCHANGED main_rest

NextMain ==
    \/ MainBegin
    \/ MainEpoch
    \/ MainBatch
    \/ MainForward
    \/ MainLoss
    \/ MainZeroGrad
    \/ MainBackward
    \/ MainStep
    \/ MainEval
    \/ MainRecord
    \/ MainTrain

\* SpecMain: one call of main, for every epoch count and training set size
InitMain == Init /\ api = "models"
SpecMain == InitMain /\ [][NextMain]_vars

\* C15: a run of main ends by returning after exactly the configured
\* epochs: with E epochs of B minibatches the optimizer took E*B steps and
\* metrics were recorded E times.
C15_RunCompletesAllEpochs ==
    run.pc \in {"done", "crashed"}
        => /\ run.pc = "done"
           /\ run.steps = run.epoch * run.batches
           /\ run.recorded = run.epoch

\* the first epoch over an empty training set ends the run with an error,
\* no metrics recorded
C15_Witness ==
    /\ run.pc = "crashed" /\ run.epoch > 0 /\ run.batches = 0
    /\ run.recorded = 0 /\ run.t = 0

\* C16: model parameters change only in the optimizer step; within a
\* minibatch the order is forward, loss assembly, zero_grad, backward,
\* step; neither the forward pass nor the end-of-epoch metric recording
\* changes a parameter.
C16_ParamsChangeOnlyInStep ==
    [][/\ run'.params # run.params => run.pc \in {"start", "step"}
       /\ run.pc = "forward" => run'.pc = "loss"
       /\ run.pc = "loss" => run'.pc = "zero_grad"
       /\ run.pc = "zero_grad" => run'.pc = "backward"
       /\ run.pc = "backward" => run'.pc = "step"
       /\ run'.pc = "forward" => run.pc = "batch"
       /\ run'.pc = "step" => run.pc = "backward"
       /\ run'.steps # run.steps => run.pc = "step"]_vars

\* a run of two epochs returned with steps taken and metrics recorded
C16_Witness ==
    /\ run.pc = "done" /\ run.epoch >= 2 /\ run.batches >= 2
    /\ run.steps = run.epoch * run.batches
    /\ run.recorded = run.epoch

\* ----------------------------------------- adjacency transform: edge pruning
\* get_transform is called by get_model; its module is not among the source
\* files.  The pruning and self-loop steps are written from their description:
\* --percentile is "how many edges to keep" (100 by default), kept edges are
\* those at or above a percentile threshold of the weights, and --add-self
\* sets the diagonal to 1.
PruneNodes == 3
PruneWeights == {0, 1, 2}
Percentiles == {0, 50, 100}

PruneAdjacencies ==
    { a \in [1..PruneNodes -> [1..PruneNodes -> PruneWeights]] :
        \A i, j \in 1..PruneNodes : a[i][j] = a[j][i] }

\* the entries of the matrix, row after row
Flat(adj) ==
    [k \in 1..(Len(adj) * Len(adj)) |->
        adj[((k - 1) \div Len(adj)) + 1][((k - 1) % Len(adj)) + 1]]

\* the k-th smallest of the values, k from 1
KthSmallest(values, k) ==
    CHOOSE v \in {values[i] : i \in 1..Len(values)} :
        /\ Cardinality({i \in 1..Len(values) : values[i] < v}) < k
        /\ k <= Cardinality({i \in 1..Len(values) : values[i] <= v})

\* twice the q-th percentile of the values, interpolated linearly between
\* the two nearest ranks (q a multiple of 50)
Percentile2(values, q) ==
    LET h2 == ((Len(values) - 1) * q) \div 50
    IN KthSmallest(values, (h2 \div 2) + 1) + KthSmallest(values, ((h2 + 1) \div 2) + 1)

Pruned(adj, threshold2) ==
    [i \in 1..Len(adj) |-> [j \in 1..Len(adj) |->
        IF 2 * adj[i][j] >= threshold2 THEN adj[i][j] ELSE 0]]

percentile_prune_above(adj, percentile) ==
    Pruned(adj, Percentile2(Flat(adj), percentile))

\* keep the share `percentile` of the weights: those at or above the
\* (100 - percentile)-th percentile; the others become 0
percentile_prune(adj, percentile) ==
    Pruned(adj, Percentile2(Flat(adj), 100 - percentile))

\* set the diagonal to 1
add_self_loops(adj) ==
    [i \in 1..Len(adj) |-> [j \in 1..Len(adj) |-> IF i = j THEN 1 ELSE adj[i][j]]]

transform_adjacency(adj, percentile, add_self) ==
    LET kept == percentile_prune(adj, percentile)
    IN IF add_self THEN add_self_loops(kept) ELSE kept

AdjTransform ==
    /\ ~prune.done
    /\ \E adj \in PruneAdjacencies, q \in Percentiles, s \in BOOLEAN :
        prune' = [done |-> TRUE, adj |-> adj, percentile |-> q, add_self |-> s,
                  out |-> transform_adjacency(adj, q, s)]
    /\ UNCHANGED <<lifecycle_vars, reg_out, graph_adj, slr_vars, attn_vars, fwd_vars,
                   net_vars, run, late_vars>>

NextPrune == AdjTransform
InitPrune == Init /\ api = "model_layers"
\* SpecPrune: one adjacency transformed under any options
SpecPrune == InitPrune /\ [][NextPrune]_vars

C21_AdjacencyUnchanged == [][graph_adj' = graph_adj]_vars

\* ------------------------------------------------ get_model without a graph
\* C28: model_layers.get_model, asked for gcn, lcg, sgc or slr with
\* graph = None, fails an assertion with nothing constructed and the
\* provider's adjacency untouched; lr and mlp are built without a graph.
C28_GraphModelsNeedGraph ==
    (api = "model_layers" /\ last_call.op = "get_model" /\ ~last_call.graph_given)
        => /\ requested \in {"gcn", "lcg", "sgc", "slr"}
                => /\ raised = "AssertionError" /\ pc = "failed"
                   /\ my_model = NoModel /\ own_state = NoState
                   /\ graph_adj = LifecycleGraph /\ laplacian = <<>>
           /\ requested \in {"lr", "mlp"}
                => /\ raised # "AssertionError"
                   /\ ~last_call.with_state
                        => pc = "built" /\ raised = "none" /\ my_model.kind = requested

\* the sparse-logistic model was asked for without a graph and refused
C28_Witness ==
    /\ api = "model_layers" /\ last_call.op = "get_model" /\ ~last_call.graph_given
    /\ requested = "slr" /\ raised = "AssertionError" /\ pc = "failed"

\* ------------------------------------------------- main: the best summary
\* the epochs after the first, as positions in run.aucs (epoch t at t + 1)
LaterEpochs == {k \in 1..Len(run.aucs) : k >= 2}
TopLaterAuc ==
    LET vals == {0} \cup {run.aucs[k] : k \in LaterEpochs}
    IN CHOOSE v \in vals : \A w \in vals : w <= v

\* C24: main returns the summary of the epoch with the highest validation
\* AUC among the epochs of index >= 1, the earliest on ties; epoch 0 is never
\* selected, max_valid is the highest such AUC so far (it never decreases),
\* and the summary is empty when no later epoch has an AUC above 0.
C24_BestSummaryIsTopLaterEpoch ==
    run.pc \in {"epoch", "done"}
        => /\ run.max_valid = TopLaterAuc
           /\ run.best # 0
           /\ TopLaterAuc = 0 => run.best = -1
           /\ TopLaterAuc > 0
                => /\ run.best + 1 \in LaterEpochs
                   /\ run.aucs[run.best + 1] = TopLaterAuc
                   /\ \A k \in LaterEpochs :
                        run.aucs[k] = TopLaterAuc => k >= run.best + 1
           /\ (run.pc = "done" /\ run.epoch <= 1) => run.best = -1

\* three epochs: the first has the highest AUC, the two later ones tie, and
\* the summary returned is that of epoch 1
C24_Witness ==
    /\ run.pc = "done" /\ run.epoch = 3
    /\ run.aucs = <<2, 1, 1>>
    /\ run.best = 1 /\ run.max_valid = 1

\* C25: the model is in training mode during every training minibatch, in
\* evaluation mode during the end-of-epoch metric recording, and in
\* training mode again before the next epoch and when the epoch loop ends.
C25_TrainingModeInMinibatches ==
    /\ run.pc \in {"epoch", "batch", "forward", "loss", "zero_grad", "backward",
                    "step", "eval", "done"} => run.training
    /\ run.pc \in {"record", "train"} => ~run.training

\* a minibatch of a later epoch, after an evaluation, in training mode
C25_Witness ==
    /\ run.pc = "forward" /\ run.t >= 1 /\ run.recorded >= 1 /\ run.training

\* C26: the structural regularization added to the loss is the sum of
\* regularizer[i] * lambdas[i] over the positions present in both lists; a
\* term without a lambda adds nothing, so with no lambdas the term is 0.
C26_OtherLossPairsTermsWithLambdas ==
    run.loss_bound
        => /\ run.other_loss =
                SumTo([i \in 1..Min(Len(run.regs), Len(run.lambdas)) |->
                          run.regs[i] * run.lambdas[i]],
                      Min(Len(run.regs), Len(run.lambdas)))
           /\ run.lambdas = <<>> => run.other_loss = 0
           /\ run.regs = <<>> => run.other_loss = 0

\* the sparse-logistic penalty is 2, there is no lambda, and 0 was added
C26_Witness ==
    /\ run.loss_bound /\ run.regs = <<2>> /\ run.lambdas = <<>>
    /\ run.other_loss = 0 /\ run.steps >= 1

\* ----------------------------------------- GraphNetwork: the dropout masks
\* SpecDrop: the dropouts GraphNetwork.__init__ builds (model_layers), and
\* the dropout step of each block of supervised, on activations of size
\* (examples, nodes, channels).
DropLayers == 5     \* num_layer 1..DropLayers

\* x after relu: two examples, two nodes, two channels, nothing zero
DropActivations ==
    { <<<<<<1, 2>>, <<3, 4>>>>, <<<<5, 6>>, <<7, 8>>>>>>,
      <<<<<<2, 1>>, <<1, 1>>>>, <<<<3, 3>>, <<1, 2>>>>>> }

\* dropout(torch.FloatTensor(np.ones((x.size(0), x.size(1))))): one element
\* per (example, node), held in units of 1 / (10 - p10): in training mode a
\* kept element is 1 / (1 - p), a dropped one 0; in evaluation mode all are 1
id_to_keep(x, r, p10, training) ==
    LET nodes == Len(x[1])
        d == DrawMask(r, Len(x) * nodes, p10)
    IN [keep |-> [e \in DOMAIN x |-> [n \in DOMAIN x[e] |->
                    IF training THEN d.mask[(e - 1) * nodes + n] * 10
                    ELSE 10 - p10]],
        rng |-> IF training THEN d.rng ELSE r]

\* x * id_to_keep.unsqueeze(2): the size-1 last dimension spans the channels
times_id_to_keep(x, keep) ==
    [e \in DOMAIN x |-> [n \in DOMAIN x[e] |-> [c \in DOMAIN x[e][n] |->
        x[e][n][c] * keep[e][n]]]]

NoBlock == [applied |-> FALSE]

\* GraphNetwork.__init__, the dropouts; the generator is in any state
DropConstruct ==
    /\ ~drop.built
    /\ \E num_layer \in 1..DropLayers, dropout \in BOOLEAN, r \in 0..(RngModulus - 1) :
        drop' = [built |-> TRUE, dropout |-> dropout, num_layer |-> num_layer,
                 my_dropouts |-> my_dropouts_of([api |-> "model_layers",
                                                 num_layer |-> num_layer,
                                                 dropout |-> dropout]),
                 training |-> TRUE, i |-> num_layer, rng |-> r, last |-> NoBlock]
    /\ UNCHANGED <<lifecycle_vars, reg_out, graph_adj, slr_vars, attn_vars, fwd_vars,
                   net_vars, run, prune, l1>>

\* a call of supervised, in training or in evaluation mode
DropForward ==
    /\ drop.built /\ drop.i = drop.num_layer
    /\ \E training \in BOOLEAN :
        drop' = [drop EXCEPT !.i = 0, !.training = training, !.last = NoBlock]
    /\ UNCHANGED <<lifecycle_vars, reg_out, graph_adj, slr_vars, attn_vars, fwd_vars,
                   net_vars, run, prune, l1>>

\* supervised, block i, from `if dropout is not None` on; x is what relu left
DropBlock ==
    /\ drop.built /\ drop.i < drop.num_layer
    /\ \E x \in DropActivations :
        LET dropout == drop.my_dropouts[drop.i + 1]
            k == id_to_keep(x, drop.rng, dropout.p10, drop.training)
        IN drop' = IF dropout.present
                   THEN [drop EXCEPT !.i = drop.i + 1, !.rng = k.rng,
                            !.last = [applied |-> TRUE, block |-> drop.i,
                                      masked |-> TRUE, keep |-> k.keep,
                                      before |-> x,
                                      after |-> times_id_to_keep(x, k.keep),
                                      rng0 |-> drop.rng]]
                   ELSE [drop EXCEPT !.i = drop.i + 1,
                            !.last = [applied |-> TRUE, block |-> drop.i,
                                      masked |-> FALSE, keep |-> <<>>,
                                      before |-> x, after |-> x,
                                      rng0 |-> drop.rng]]
    /\ UNCHANGED <<lifecycle_vars, reg_out, graph_adj, slr_vars, attn_vars, fwd_vars,
                   net_vars, run, prune, l1>>

NextDrop ==
    \/ DropConstruct
    \/ DropForward
    \/ DropBlock

InitDrop == Init /\ api = "model_layers"
SpecDrop == InitDrop /\ [][NextDrop]_vars

\* C27: with dropout enabled the probability of block i (0-based) is
\* min((i + 1) / 10, 0.4), never decreasing with depth and never above 0.4;
\* the mask has one element per (example, node) and multiplies every channel
\* of that node; with dropout disabled no block has a dropout, no mask is
\* drawn and the activations are left as they are.
C27_DropoutPerNodeAndCapped ==
    drop.built
        => /\ drop.dropout
                => \A j \in 1..drop.num_layer :
                      /\ drop.my_dropouts[j].present
                      /\ drop.my_dropouts[j].p10 = (IF j < 4 THEN j ELSE 4)
                      /\ drop.my_dropouts[j].p10 <= 4
                      /\ j > 1 => drop.my_dropouts[j - 1].p10 <= drop.my_dropouts[j].p10
           /\ ~drop.dropout
                => \A j \in 1..drop.num_layer : ~drop.my_dropouts[j].present
           /\ drop.last.applied
                => LET b == drop.last IN
                   /\ b.masked = drop.dropout
                   /\ b.masked
                        => /\ DOMAIN b.keep = DOMAIN b.before
                           /\ \A e \in DOMAIN b.before :
                                /\ DOMAIN b.keep[e] = DOMAIN b.before[e]
                                /\ \A n \in DOMAIN b.before[e] :
                                     /\ drop.training => b.keep[e][n] \in {0, 10}
                                     /\ \A c \in DOMAIN b.before[e][n] :
                                          b.after[e][n][c]
                                            = b.before[e][n][c] * b.keep[e][n]
                   /\ ~b.masked => b.after = b.before /\ drop.rng = b.rng0

\* the fifth block, probability 0.4, in training mode: one node of the first
\* example lost all its channels, the other kept them all
C27_Witness ==
    /\ drop.built /\ drop.dropout /\ drop.training /\ drop.last.applied
    /\ drop.last.block = 4 /\ drop.my_dropouts[5].p10 = 4
    /\ drop.last.keep[1][1] = 0 /\ drop.last.after[1][1] = <<0, 0>>
    /\ drop.last.keep[1][2] = 10 /\ drop.last.after[1][2] # <<0, 0>>

\* ------------------------------------------- GraphNetwork: the read-out width
\* the size of x.view(nb_examples, -1) after the blocks of supervised
FlattenedSize(n) ==
    LET s == Execute(n, NetState(n),
                     emb_ops(n, TRUE)
                        \o Blocks(LAMBDA j : supervised_block(n, j), 1, supervised_zip(n)))
    IN s.shape.nodes * s.shape.channels

L1Kinds == {"gcn", "lcg", "sgc", "slr", "lr", "mlp", "random", "cnn"}
L1Lambdas == {-1, 0, 1, 2}

\* the weight and the bias of one nn.Linear (or nn.Conv2d), flattened
L1Tensors ==
    { [weight |-> <<0, 0>>, bias |-> <<0>>],
      [weight |-> <<1, -2>>, bias |-> <<-1>>],
      [weight |-> <<-1, 1>>, bias |-> <<2>>] }

\* a module and its parameters(); a parameter is known by its name
Module(type, attr, k, v) ==
    [type |-> type,
     params |-> <<[name |-> <<attr, k, "weight">>, val |-> v.weight],
                  [name |-> <<attr, k, "bias">>, val |-> v.bias]>>]
NoModule == [type |-> "none", params |-> <<>>]

ReadoutKinds == {"gcn", "lcg", "sgc", "slr", "lr"}
\* how many Linear (or, for the CNN, Conv2d and fc) modules a model holds
L1ModuleCount(kind, num_layer) == IF kind \in ReadoutKinds THEN 1 ELSE num_layer + 1

\* the constructors, as far as these attributes go: GraphNetwork,
\* SparseLogisticRegression, LogisticRegression; MLP, Random; CNN
L1Model(kind, num_layer, v) ==
    IF kind \in ReadoutKinds
    THEN [kind |-> kind,
          has_logistic |-> TRUE,
          my_logistic_layers |-> <<Module("Linear", "my_logistic_layers", 0, v[1])>>,
          has_my_layers |-> kind \in GraphNetworkKinds, my_layers |-> <<>>,
          has_last_layer |-> FALSE, last_layer |-> NoModule,
          fc |-> NoModule]
    ELSE [kind |-> kind,
          has_logistic |-> FALSE, my_logistic_layers |-> <<>>,
          has_my_layers |-> TRUE,
          my_layers |-> [k \in 1..num_layer |->
                            Module(IF kind = "cnn" THEN "Sequential" ELSE "Linear",
                                   "my_layers", k - 1, v[k])],
          has_last_layer |-> kind # "cnn",
          last_layer |-> IF kind # "cnn"
                         THEN Module("Linear", "last_layer", 0, v[num_layer + 1])
                         ELSE NoModule,
          fc |-> IF kind = "cnn" THEN Module("Linear", "fc", 0, v[num_layer + 1])
                 ELSE NoModule]

\* l1_criterion(param, l1_target): L1Loss(size_average=False) against zeros
l1_criterion(param) == SeqSum([i \in DOMAIN param.val |-> Abs(param.val[i])])

ParamsOf(modules) ==
    LET RECURSIVE All(_)
        All(k) == IF k > Len(modules) THEN <<>> ELSE modules[k].params \o All(k + 1)
    IN All(1)

calculate_l1_loss_unscaled(params, l1_loss_lambda) ==
    SeqSum([i \in DOMAIN params |-> l1_criterion(params[i])])
calculate_l1_loss(params, l1_loss_lambda) ==
    SeqSum([i \in DOMAIN params |-> l1_criterion(params[i])]) * l1_loss_lambda

\* the parameter generators setup_l1_loss hands to calculate_l1_loss, in order
l1_generators(m) ==
    (IF m.has_logistic THEN <<ParamsOf(m.my_logistic_layers)>> ELSE <<>>)
    \o (IF m.has_my_layers /\ Len(m.my_layers) > 0 /\ m.my_layers[1].type = "Linear"
        THEN <<m.my_layers[1].params>> ELSE <<>>)
    \o (IF m.has_last_layer /\ m.last_layer.type = "Linear"
        THEN <<m.last_layer.params>> ELSE <<>>)

setup_l1_loss(m, l1_loss_lambda) ==
    LET g == l1_generators(m)
    IN SeqSum([i \in DOMAIN g |-> calculate_l1_loss(g[i], l1_loss_lambda)])

\* get_model, and --l1-loss-lambda
L1GetModel ==
    /\ ~l1.called /\ l1 = NoL1
    /\ \E kind \in L1Kinds, num_layer \in 0..MaxLayers :
        /\ kind \in {"random", "cnn"} => api = "models"
        /\ kind \in ReadoutKinds => num_layer = 1
        /\ \E v \in [1..L1ModuleCount(kind, num_layer) -> L1Tensors],
              lambda \in L1Lambdas :
            l1' = [called |-> FALSE, built |-> TRUE,
                   model |-> L1Model(kind, num_layer, v),
                   l1_loss_lambda |-> lambda]
    /\ UNCHANGED <<lifecycle_vars, reg_out, graph_adj, slr_vars, attn_vars, fwd_vars,
                   net_vars, run, prune, drop>>

\* l1_loss = models.setup_l1_loss(my_model, l1_loss_lambda, l1_criterion, on_cuda)
L1SetupLoss ==
    /\ ~l1.called /\ l1 # NoL1
    /\ l1' = [called |-> TRUE, built |-> TRUE, model |-> l1.model,
              l1_loss_lambda |-> l1.l1_loss_lambda,
              counted |-> ParamsOf([i \in DOMAIN l1_generators(l1.model) |->
                                       [params |-> l1_generators(l1.model)[i]]]),
              l1_loss |-> setup_l1_loss(l1.model, l1.l1_loss_lambda)]
    /\ UNCHANGED <<lifecycle_vars, reg_out, graph_adj, slr_vars, attn_vars, fwd_vars,
                   net_vars, run, prune, drop>>

NextL1 ==
    \/ L1GetModel
    \/ L1SetupLoss

SpecL1 == Init /\ [][NextL1]_vars

\* the tensors the penalty is to cover: the read-out layer's, and for an MLP
\* (and Random, built like it) the first hidden layer's and the last layer's
PenalizedTensors(m) ==
    LET of(mod) == {mod.params[i] : i \in DOMAIN mod.params}
    IN IF m.kind \in ReadoutKinds THEN of(m.my_logistic_layers[1])
       ELSE IF m.kind \in {"mlp", "random"}
            THEN of(m.last_layer)
                    \cup (IF m.my_layers # <<>> THEN of(m.my_layers[1]) ELSE {})
       ELSE {}

RECURSIVE SumOver(_, _)
SumOver(f(_), S) ==
    IF S = {} THEN 0
    ELSE LET x == CHOOSE y \in S : TRUE IN f(x) + SumOver(f, S \ {x})

\* C22: the L1 penalty is l1_loss_lambda times the sum of the absolute
\* values of the read-out layer's parameters (for an MLP: of its first
\* hidden layer and its last layer); it is 0 when l1_loss_lambda is 0, not
\* negative when l1_loss_lambda >= 0, and no tensor is counted twice.
C22_L1PenaltyIsScaledAbsSum ==
    l1.called
        => /\ l1.l1_loss = l1.l1_loss_lambda * SumOver(l1_criterion, PenalizedTensors(l1.model))
           /\ l1.l1_loss_lambda = 0 => l1.l1_loss = 0
           /\ l1.l1_loss_lambda >= 0 => l1.l1_loss >= 0
           /\ \A i, j \in DOMAIN l1.counted :
                l1.counted[i].name = l1.counted[j].name => i = j
           /\ {l1.counted[i] : i \in DOMAIN l1.counted} = PenalizedTensors(l1.model)

\* an MLP of two hidden layers with nothing zero, lambda 2: the first hidden
\* layer and the last layer are counted, the second hidden layer is not
C22_Witness ==
    /\ l1.called /\ l1.model.kind = "mlp" /\ Len(l1.model.my_layers) = 2
    /\ l1.l1_loss_lambda = 2
    /\ l1_criterion(l1.model.my_layers[2].params[1]) > 0
    /\ Len(l1.counted) = 4
    /\ l1.l1_loss = 2 * (l1_criterion(l1.model.my_layers[1].params[1])
                          + l1_criterion(l1.model.my_layers[1].params[2])
                          + l1_criterion(l1.model.last_layer.params[1])
                          + l1_criterion(l1.model.last_layer.params[2]))
    /\ l1.l1_loss > 0

====
